---------------------------- MODULE Spec2Model ----------------------------
(***************************************************************************)
(* CerebroVial vision core: the asynchronous frame pipeline                *)
(* (AsyncVisionPipeline) and the realtime pub/sub broadcaster              *)
(* (RealtimeBroadcaster), as state machines.                               *)
(*                                                                         *)
(* Timestamps and lags are counted in units of 0.5 s, so the code's        *)
(* thresholds 1.5 s and 2.5 s are the integers 3 and 5.                    *)
(***************************************************************************)
EXTENDS Integers, Sequences, FiniteSets, TLC

\* ------------------------------------------------------------------ bounds
\* Number of frames the source holds before end-of-stream.
NumFrames == 6
\* frame_buffer_size and result_buffer_size given to the constructor.
FrameBufferSize == 2
ResultBufferSize == 5
\* How many times an outside caller invokes stop().
MaxStopCalls == 1
\* Calls of subscribe() and of broadcast() in one run of the broadcaster.
MaxSubscribes == 2
MaxBroadcasts == 3
\* Analyses handed to an aggregator between two flushes, and the last tick
\* of the clock (time.time(), in units of window_duration / 2).
MaxBuffer == 3
MaxTime == 4
\* flush_queue_size given to the asynchronous aggregator.
FlushQueueSize == 1
\* Vehicles the detector reports in one frame.
MaxDetections == 3
\* Frames in which ByteTrack reports track 1, frames in which it reports
\* the short-lived track 2, and how often the raw class of a track changes
\* from one frame to the next.
MaxObservations == 32
MaxShortTrack == 1
MaxClassChanges == 1
\* Calls of SimpleSpeedEstimator.estimate in one run.
MaxEstimates == 3
\* Calls of add_camera, of start_camera or start_all, and of stop_camera in
\* one run of the manager; pairs one camera's pipeline yields while such
\* calls go on, and while its loop is left to run; and the last second of
\* the manager's clock.
MaxAdds == 2
MaxStarts == 3
MaxStops == 2
MaxPullsBusy == 1
MaxPulls == 3
MaxCamTime == 4
\* Frames the source of the synchronous pipeline holds.
SyncFrames == 4
\* Frames handed to the processor chain in one run.
MaxChainFrames == 4

\* --------------------------------------------------------- program constants
\* result_queue depth run() waits for before playback (async_pipeline.py:176).
PreBufferDepth == 5
\* Catch-up thresholds 1.5 s and 2.5 s (async_pipeline.py:125,128), in 0.5 s.
LagT1 == 3
LagT2 == 5

\* The source clock: the sets of steps (in 0.5 s) its timestamp may take from
\* one frame to the next: a steady 0.5 s, a steady 2 s, or jitter.
SourceClocks == {{1}, {4}}
JitterClock == {2, 4}

NoFrame == [id |-> -1, ts |-> 0]
NoAnalysis == -1

\* Camera ids clients subscribe to, and the queue_size values they pass.
Cameras == {"cam1", "cam2"}
QueueSizes == {1, 2}
NoCamera == "none"
NoData == 0
EmptyMap == [k \in {} |-> {}]
NoOp == [op |-> "none"]

\* A vehicle without a speed yet (speed is None).
NoSpeed == -1
\* window_duration given to the aggregator's constructor, in clock ticks.
WindowDuration == 2
\* Zone ids, tracker ids and the vehicle types of the detector.
ZoneIds == {"zone1", "zone2"}
VehicleIds == {1, 2, 3}
VehicleTypes == {"car", "bus", "truck", "motorcycle"}

\* Entries kept per track in class_history (supervision_tracker.py:64).
HistoryLimit == 30
\* Track ids ByteTrack hands out, and the raw types of the detector.
TrackerIds == {1, 2}
RawTypes == {"car", "truck"}

\* Speed samples are timed in units of 0.05 s: the 1.0 s history window
\* (speed_estimator.py:37) and the 0.1 s noise guard (speed_estimator.py:47).
HistorySpan == 20
MinTimeDiff == 2
\* pixels_per_meter given to the estimator's constructor.
PixelsPerMeter == 10
\* Steps of the frame timestamp between two calls of estimate: the same
\* frame again, 0.1 s, 0.15 s and 1 s.
FrameSteps == {0, 2, 3, 20}
\* The id of a detection without a track, and the bottom edges y2 of the
\* bounding boxes.
NoId == ""
BottomYs == {100, 130}

\* Seconds between two broadcasts of one camera (multi_camera.py:117).
BroadcastInterval == 2
\* latest_frame_raw = None, and no task.
NoImage == 0
NoTask == 0

\* Values of detect_every_n, and the processors that can head the chain:
\* DetectionProcessor, SmartDetectionProcessor without and with interpolation.
DetectEvery == {1, 2, 3}
DetectorKinds == {"plain", "smart", "interpolating"}
\* How far the id of a frame handed to the chain lies after the one before
\* (catch-up skipping leaves gaps), and the vehicles of one detection.
IdSteps == {1, 2, 3}
VehicleCounts == {0, 1}
\* None, where an analysis object is expected.
NoObject == 0

\* analysis = None in VisionPipeline.run (sync_pipeline.py:26).
NoResult == [none |-> TRUE, frame_id |-> -1, total_count |-> 0]

VARIABLES
    \* --- the frame source (OpenCVSource)
    srcPos,             \* frame_id of the next frame the iterator yields
    srcTs,              \* timestamp of the last frame yielded
    srcOpen,            \* self.cap is not None
    src_gaps,           \* timestamp steps this source may take
    releases,           \* number of invocations of source.release()
    \* --- AsyncVisionPipeline fields
    stop_event, frame_queue, result_queue,
    latest_capture_ts, latest_analysis, dropped_frames,
    \* --- capture thread
    cpc, cframe,
    \* --- processing thread
    ppc, pframe, skipped_counter, analysis,
    \* --- run() generator and its caller
    rpc, yielded, gen_closed,
    \* --- an outside caller of stop()
    spc, stopCalls, stop_returned,
    \* --- observations (history)
    enq,                \* ids put into frame_queue, in order
    taken_clear,        \* ids taken from the source while the flag was clear
    decisions,          \* per dequeued frame: its catch-up tier and whether processed
    \* --- RealtimeBroadcaster
    subscribers,        \* _subscribers: camera id -> set of queues (a dict)
    bc_latest_state,    \* _latest_state: camera id -> last broadcast data (a dict)
    q_items,            \* every asyncio.Queue created so far: its items
    q_maxsize,          \* and its maxsize
    q_camera,           \* and the camera id its owner subscribed it to
    msgCount,           \* broadcasts so far; the n-th broadcast carries data n
    \* --- observations of the broadcaster (history)
    published,          \* per camera, the data last broadcast to it
    dropped,            \* <<queue, data>>: deliveries skipped on a full queue
    last_op,            \* the call that has just returned, with what it saw:
                        \* subscribe: the new queue, and the data last
                        \*   published to its camera before the call
                        \* broadcast: camera, data, who had room, who was full
    \* --- the aggregators' environment
    clock,              \* time.time()
    agg_inputs,         \* the analyses the processor chain may hand over
    flush_durations,    \* how long the saves of one flush may take
    repo_faulty,        \* repository.save may raise
    \* --- TrafficDataAggregator (synchronous)
    buffer, last_flush_time,
    agg_last,           \* the aggregator call that has just ended: what it
                        \* was given, what it saved, whether it raised
    \* --- AsyncTrafficDataAggregator
    a_buffer, a_last_flush_time, flush_queue, a_stop_event,
    wpc, w_batch,       \* the PersistenceWorker thread and the batch it holds
    apc,                \* the caller of stop()
    \* --- observations of the asynchronous aggregator (history)
    a_put,              \* batches placed on flush_queue
    a_saved,            \* batches handed, item by item, to repository.save
    a_dropped,          \* batches given up on a full flush_queue
    \* --- ZoneCounter
    zc_zones,           \* self.zones with self.zone_areas, in dict order
    zc_last,            \* the call that has just returned: its detections
                        \* and the analysis it gave
    \* --- SupervisionTracker
    class_history,      \* self.class_history: track id -> class ids (a dict)
    tk_observed,        \* per track id, every raw type seen so far (history)
    tk_last,            \* the track() call that has just returned
    \* --- SimpleSpeedEstimator
    se_history,         \* self.history: vehicle id -> (time, y) samples
    se_time,            \* timestamp of the frame last handed to estimate
    se_calls,           \* calls of estimate so far
    se_last,            \* the estimate() call that has just returned
    \* --- the manager's environment
    callers,            \* the camera ids its callers pass
    analyses,           \* whether a pair may carry an analysis, or none
    pull_limit,         \* pairs one pipeline yields in this run
    \* --- MultiCameraManager
    cameras,            \* self.cameras: camera id -> CameraState (a dict)
    camera_keys,        \* and its keys in insertion order
    tasks,              \* self._tasks: camera id -> task
    coroutines,         \* every asyncio.Task created so far: its camera,
                        \* where _run_camera_pipeline stands, whether
                        \* cancel() was called on it, and whether its run()
                        \* generator is suspended at its yield
    stoppers,           \* the stop_camera calls suspended at "await task",
                        \* each with the count of stop_invocations it met
    loop_thread,        \* the task whose pull from its pipeline holds the
                        \* thread of the event loop, if any
    cam_clock,          \* time.time(), in seconds
    pulled,             \* per camera, the pairs its pipeline has yielded
    \* --- observations of the manager (history)
    stop_invocations,   \* per camera, the invocations of pipeline.stop()
    cam_sent,           \* per camera, when it was last broadcast
    cam_calls,          \* calls made so far, by kind
    mc_last,            \* the call or task step that has just ended
    \* --- the synchronous pipeline (VisionPipeline)
    vp_pos,             \* frames run() has taken from the source
    analysis_local,     \* run()'s local variable 'analysis'
    vp_state,           \* "running", "ended" (source exhausted) or "failed"
    vp_yielded,         \* pairs run() has yielded
    vp_calls,           \* calls of processor_chain.process, in order
    \* --- the processor chain (processors.py, smart_detection.py)
    detect_every_n,     \* constructor argument of the detection processor
    detector_kind,      \* which detection processor heads the chain
    objects,            \* the FrameAnalysis objects created so far, by identity
    last_analysis,      \* self._last_analysis: an object, or NoObject
    chain_analysis,     \* the caller's local 'analysis' handed to process
    next_frame_id,      \* the least id the next processed frame can have
    detect_calls,       \* frame ids detector.detect was called with
    chain_log,          \* per processed frame: what _process saw and returned
    queued_results,     \* pairs put on result_queue, with the object as put
    buffered,           \* objects appended to the aggregator's buffer, as appended
    \* --- the processing loop over a source that never ends
    cu_frame_id,        \* id of the next frame to leave frame_queue
    cu_skipped_counter, \* the loop's skipped_counter
    current_lag,        \* current_lag of the frame dequeued last
    should_process,     \* should_process of the frame dequeued last
    detection_ran       \* whether processing that frame called the detector

srcVars  == <<srcPos, srcTs, srcOpen, src_gaps, releases>>
pipeVars == <<stop_event, frame_queue, result_queue, latest_capture_ts,
              latest_analysis, dropped_frames>>
capVars  == <<cpc, cframe>>
procVars == <<ppc, pframe, skipped_counter, analysis>>
runVars  == <<rpc, yielded, gen_closed>>
extVars  == <<spc, stopCalls, stop_returned>>
histVars == <<enq, taken_clear, decisions>>

bcVars   == <<subscribers, bc_latest_state, q_items, q_maxsize, q_camera,
             msgCount>>
bcHist   == <<published, dropped, last_op>>

\* Everything the pipeline owns, and everything it does not.
pipelineVars    == <<srcVars, pipeVars, capVars, procVars, runVars, extVars,
                     histVars>>
broadcasterVars == <<bcVars, bcHist>>

aggEnvVars  == <<agg_inputs, flush_durations, repo_faulty>>
syncAggVars == <<buffer, last_flush_time, agg_last>>
asyncAggVars == <<a_buffer, a_last_flush_time, flush_queue, a_stop_event,
                  wpc, w_batch, apc, a_put, a_saved, a_dropped>>
aggregatorVars == <<clock, aggEnvVars, syncAggVars, asyncAggVars>>

zoneVars == <<zc_zones, zc_last>>

trackerVars == <<class_history, tk_observed, tk_last>>
speedVars == <<se_history, se_time, se_calls, se_last>>
trackingVars == <<trackerVars, speedVars>>

managerVars == <<cameras, camera_keys, tasks, coroutines, stoppers,
                 loop_thread, pulled>>
managerHist == <<stop_invocations, cam_sent, cam_calls, mc_last>>
camEnvVars == <<callers, analyses, pull_limit>>
cameraVars == <<camEnvVars, managerVars, cam_clock, managerHist>>

\* The components of sections further down, which the ones above never touch.
syncVars == <<vp_pos, analysis_local, vp_state, vp_yielded, vp_calls>>

chainEnvVars == <<detect_every_n, detector_kind>>
chainVars == <<chainEnvVars, objects, last_analysis, chain_analysis,
               next_frame_id, detect_calls, chain_log, queued_results,
               buffered>>

catchUpVars == <<cu_frame_id, cu_skipped_counter, current_lag,
                 should_process, detection_ran>>

laterVars == <<trackingVars, cameraVars, syncVars, chainVars, catchUpVars>>

nonPipelineVars    == <<broadcasterVars, aggregatorVars, zoneVars, laterVars>>
nonBroadcasterVars == <<pipelineVars, aggregatorVars, zoneVars, laterVars>>
nonAggregatorVars  == <<pipelineVars, broadcasterVars, zoneVars, laterVars>>
nonZoneVars        == <<pipelineVars, broadcasterVars, aggregatorVars,
                        laterVars>>
coreVars           == <<pipelineVars, broadcasterVars, aggregatorVars,
                        zoneVars>>

vars == <<pipelineVars, broadcasterVars, aggregatorVars, zoneVars, laterVars>>

\* ------------------------------------------------------------ queue.Queue
\* Variant: the capacity test is off by one.
QueueFullOffByOne(q, maxsize) == Len(q) > maxsize

QueueFull(q, maxsize) == Len(q) >= maxsize

\* Variant: a LIFO queue (queue.LifoQueue) in place of the FIFO one.
QueuePutLifo(q, item) == <<item>> \o q

QueuePut(q, item) == Append(q, item)

\* ------------------------------------------------------------------- Init
InitPipelineState ==
    /\ srcPos = 0 /\ srcTs = 0 /\ srcOpen = TRUE /\ releases = 0
    /\ stop_event = FALSE
    /\ frame_queue = <<>> /\ result_queue = <<>>
    /\ latest_capture_ts = 0 /\ latest_analysis = NoAnalysis
    /\ dropped_frames = 0
    /\ cpc = "idle" /\ cframe = NoFrame
    /\ ppc = "idle" /\ pframe = NoFrame /\ skipped_counter = 0
    /\ analysis = NoAnalysis
    /\ rpc = "init" /\ yielded = <<>> /\ gen_closed = FALSE
    /\ spc = "idle" /\ stopCalls = 0 /\ stop_returned = FALSE
    /\ enq = <<>> /\ taken_clear = <<>> /\ decisions = <<>>

\* RealtimeBroadcaster.__init__: no subscribers, no cached state.
InitBroadcaster ==
    /\ subscribers = EmptyMap /\ bc_latest_state = EmptyMap
    /\ q_items = <<>> /\ q_maxsize = <<>> /\ q_camera = <<>>
    /\ msgCount = 0
    /\ published = [c \in Cameras |-> NoData]
    /\ dropped = {}
    /\ last_op = NoOp

\* Polygons are axis-aligned rectangles (x1, y1, x2, y2), as are bboxes.
Rect(x1, y1, x2, y2) == [x1 |-> x1, y1 |-> y1, x2 |-> x2, y2 |-> y2]

\* cv2.contourArea(polygon) of a rectangle, and the area of a bbox:
\* (bbox[2] - bbox[0]) * (bbox[3] - bbox[1])
RectArea(r) == (r.x2 - r.x1) * (r.y2 - r.y1)

\* The square of the tests, a smaller square, and a polygon of no area
\* (its points on one line).
SquareZone == Rect(0, 0, 100, 100)
SmallZone == Rect(0, 0, 60, 60)
LineZone == Rect(0, 50, 100, 50)
ZonePolygons == {SquareZone, SmallZone, LineZone}

ZoneEntry(zone_id, polygon) ==
    [zone_id |-> zone_id, polygon |-> polygon, area |-> RectArea(polygon)]

\* SupervisionTracker.__init__: self.class_history = {}
InitTracker ==
    /\ class_history = EmptyMap
    /\ tk_observed = EmptyMap
    /\ tk_last = NoOp

\* SimpleSpeedEstimator.__init__: self.history = {}
InitSpeedEstimator ==
    /\ se_history = EmptyMap
    /\ se_time = 0 /\ se_calls = 0
    /\ se_last = NoOp

\* MultiCameraManager.__init__: no cameras, no tasks. time.time() is past
\* the broadcast interval from the start.
InitManager ==
    /\ cameras = EmptyMap /\ camera_keys = <<>>
    /\ tasks = EmptyMap /\ coroutines = <<>>
    /\ stoppers = {} /\ loop_thread = NoTask
    /\ cam_clock = BroadcastInterval
    /\ pulled = [c \in Cameras |-> 0]
    /\ stop_invocations = [c \in Cameras |-> 0]
    /\ cam_sent = [c \in Cameras |-> 0]
    /\ cam_calls = [add |-> 0, start |-> 0, stop |-> 0]
    /\ mc_last = NoOp

\* A manager nobody calls.
IdleManager ==
    /\ InitManager
    /\ callers = {} /\ analyses = {TRUE} /\ pull_limit = MaxPullsBusy

\* The components of the sections further down, as constructed.
\* VisionPipeline.__init__ and the first lines of run(): nothing taken from
\* the source, analysis = None.
InitVisionPipeline ==
    /\ vp_pos = 0
    /\ analysis_local = NoResult
    /\ vp_state = "running"
    /\ vp_yielded = <<>>
    /\ vp_calls = <<>>

\* The processors' constructors and the caller's 'analysis = None'.
InitChain ==
    /\ objects = <<>>
    /\ last_analysis = NoObject
    /\ chain_analysis = NoObject
    /\ next_frame_id = 0
    /\ detect_calls = <<>>
    /\ chain_log = <<>>
    /\ queued_results = <<>>
    /\ buffered = <<>>

\* A chain that is handed no frame.
IdleChain == InitChain /\ detect_every_n = 1 /\ detector_kind = "plain"

\* _processing_loop before its first frame: skipped_counter = 0, and frame
\* ids start at 0.
InitCatchUpLoop ==
    /\ cu_frame_id = 0
    /\ cu_skipped_counter = 0
    /\ current_lag = 0
    /\ should_process = FALSE
    /\ detection_ran = FALSE

InitLaterButChain ==
    /\ InitTracker /\ InitSpeedEstimator /\ IdleManager
    /\ InitVisionPipeline /\ InitCatchUpLoop

InitLater == InitLaterButChain /\ IdleChain

\* ZoneCounter.__init__ with the configuration of the tests: zone1, a square.
InitZoneCounter ==
    /\ zc_zones = <<ZoneEntry("zone1", SquareZone)>>
    /\ zc_last = NoOp

\* TrafficDataAggregator.__init__: empty buffer, last_flush_time = time.time().
\* AsyncTrafficDataAggregator.__init__: the same, an empty flush_queue, and
\* the worker thread started.
InitAggregator ==
    /\ clock = 0
    /\ buffer = <<>> /\ last_flush_time = clock
    /\ agg_last = NoOp
    /\ a_buffer = <<>> /\ a_last_flush_time = clock
    /\ flush_queue = <<>> /\ a_stop_event = FALSE
    /\ wpc = "loop" /\ w_batch = <<>>
    /\ apc = "idle"
    /\ a_put = 0 /\ a_saved = 0 /\ a_dropped = 0

\* An aggregator nothing is handed to.
IdleAggregator ==
    /\ InitAggregator
    /\ agg_inputs = {} /\ flush_durations = {0} /\ repo_faulty = FALSE
    /\ InitZoneCounter /\ InitLater

InitPipeline ==
    /\ InitPipelineState /\ src_gaps \in SourceClocks /\ InitBroadcaster
    /\ IdleAggregator

\* A source with a steady 0.5 s clock: no frame ever lags.
InitSteady ==
    /\ InitPipelineState /\ src_gaps = {1} /\ InitBroadcaster
    /\ IdleAggregator

\* A source whose clock jitters from frame to frame.
InitCatchUp ==
    /\ InitPipelineState /\ src_gaps = JitterClock /\ InitBroadcaster
    /\ IdleAggregator

Init == InitPipeline

\* ---------------------------------------------------------- capture thread
\* for frame in self.source: the iterator yields the next frame, or ends at
\* end-of-file or once release() has dropped the capture handle.
CaptureNext ==
    /\ cpc = "next"
    /\ IF srcOpen /\ srcPos < NumFrames
       THEN \E gap \in src_gaps :
              /\ cframe' = [id |-> srcPos, ts |-> srcTs + gap]
              /\ srcTs' = srcTs + gap
              /\ srcPos' = srcPos + 1
              /\ taken_clear' = IF stop_event THEN taken_clear
                                ELSE Append(taken_clear, srcPos)
              /\ cpc' = "check"
       ELSE /\ cpc' = "finally"
            /\ UNCHANGED <<cframe, srcTs, srcPos, taken_clear>>
    /\ UNCHANGED <<srcOpen, src_gaps, releases, pipeVars, procVars, runVars,
                   extVars, enq, decisions>>

\* if self._stop_event.is_set(): break ; self._latest_capture_ts = frame.timestamp
CaptureCheck ==
    /\ cpc = "check"
    /\ IF stop_event
       THEN cpc' = "finally" /\ UNCHANGED latest_capture_ts
       ELSE cpc' = "put" /\ latest_capture_ts' = cframe.ts
    /\ UNCHANGED <<srcVars, stop_event, frame_queue, result_queue,
                   latest_analysis, dropped_frames, cframe, procVars, runVars,
                   extVars, histVars>>

\* Variant: put_nowait, and on queue.Full drop the newest frame and count it.
CapturePutDropNewest ==
    /\ cpc = "put"
    /\ IF stop_event
       THEN cpc' = "next" /\ UNCHANGED <<frame_queue, enq, dropped_frames>>
       ELSE IF QueueFull(frame_queue, FrameBufferSize)
            THEN /\ dropped_frames' = dropped_frames + 1
                 /\ cpc' = "next"
                 /\ UNCHANGED <<frame_queue, enq>>
            ELSE /\ frame_queue' = QueuePut(frame_queue, cframe)
                 /\ enq' = Append(enq, cframe.id)
                 /\ cpc' = "next"
                 /\ UNCHANGED dropped_frames
    /\ UNCHANGED <<srcVars, stop_event, result_queue, latest_capture_ts,
                   latest_analysis, cframe, procVars, runVars,
                   extVars, taken_clear, decisions>>

\* Variant: the retry loop is "while True", it never looks at the stop flag.
CapturePutIgnoresStop ==
    /\ cpc = "put"
    /\ ~QueueFull(frame_queue, FrameBufferSize)
    /\ frame_queue' = QueuePut(frame_queue, cframe)
    /\ enq' = Append(enq, cframe.id)
    /\ cpc' = "next"
    /\ UNCHANGED <<srcVars, stop_event, result_queue, latest_capture_ts,
                   latest_analysis, dropped_frames, cframe, procVars, runVars,
                   extVars, taken_clear, decisions>>

\* while not stop: try put(frame, timeout=0.5); break / except Full: continue
CapturePut ==
    /\ cpc = "put"
    /\ IF stop_event
       THEN cpc' = "next" /\ UNCHANGED <<frame_queue, enq>>
       ELSE /\ ~QueueFull(frame_queue, FrameBufferSize)
            /\ frame_queue' = QueuePut(frame_queue, cframe)
            /\ enq' = Append(enq, cframe.id)
            /\ cpc' = "next"
    /\ UNCHANGED <<srcVars, stop_event, result_queue, latest_capture_ts,
                   latest_analysis, dropped_frames, cframe, procVars, runVars,
                   extVars, taken_clear, decisions>>

\* finally: self._stop_event.set()
CaptureFinally ==
    /\ cpc = "finally"
    /\ stop_event' = TRUE
    /\ cpc' = "done"
    /\ UNCHANGED <<srcVars, frame_queue, result_queue, latest_capture_ts,
                   latest_analysis, dropped_frames, cframe, procVars, runVars,
                   extVars, histVars>>

CaptureStep ==
    /\ CaptureNext \/ CaptureCheck \/ CapturePut \/ CaptureFinally
    /\ UNCHANGED nonPipelineVars


\* ------------------------------------------------------- processing thread
\* Catch-up tier of a lag: 0 (process every frame), 1 (1 of 2), 2 (1 of 3).
LagTier(lag) == IF lag > LagT1 THEN (IF lag <= LagT2 THEN 1 ELSE 2) ELSE 0

\* skipped_counter after a frame of the given lag has been looked at.
NextSkipped(counter, lag) == IF lag > LagT1 THEN counter + 1 ELSE counter

\* Variant: the 1-of-3 tier tests the counter modulo 2.
ShouldProcessHalf(counter, lag) ==
    IF lag > LagT1 THEN counter % 2 = 0 ELSE TRUE

\* should_process, from the lag and the already incremented counter.
ShouldProcess(counter, lag) ==
    IF lag > LagT1
    THEN IF lag <= LagT2 THEN counter % 2 = 0 ELSE counter % 3 = 0
    ELSE TRUE

\* processor_chain.process(frame, analysis): the analysis of this frame.
Process(frame, prev) == frame.id

\* while not self._stop_event.is_set():
ProcLoop ==
    /\ ppc = "loop"
    /\ ppc' = IF stop_event THEN "done" ELSE "get"
    /\ UNCHANGED <<srcVars, pipeVars, capVars, pframe, skipped_counter,
                   analysis, runVars, extVars, histVars>>

\* frame = self.frame_queue.get(timeout=0.1) / except queue.Empty: continue
ProcGet ==
    /\ ppc = "get"
    /\ IF frame_queue = <<>>
       THEN ppc' = "loop" /\ UNCHANGED <<frame_queue, pframe>>
       ELSE /\ pframe' = Head(frame_queue)
            /\ frame_queue' = Tail(frame_queue)
            /\ ppc' = "lag"
    /\ UNCHANGED <<srcVars, stop_event, result_queue, latest_capture_ts,
                   latest_analysis, dropped_frames, capVars, skipped_counter,
                   analysis, runVars, extVars, histVars>>

\* current_lag = self._latest_capture_ts - frame.timestamp, and the skip decision
ProcLag ==
    /\ ppc = "lag"
    /\ LET lag  == latest_capture_ts - pframe.ts
           cnt  == NextSkipped(skipped_counter, lag)
           proc == ShouldProcess(cnt, lag)
       IN /\ skipped_counter' = cnt
          /\ decisions' = Append(decisions,
                                 [tier |-> LagTier(lag), processed |-> proc])
          /\ ppc' = IF proc THEN "process" ELSE "loop"
    /\ UNCHANGED <<srcVars, pipeVars, capVars, pframe, analysis, runVars,
                   extVars, enq, taken_clear>>

\* analysis = self.processor_chain.process(frame, analysis);
\* with self._analysis_lock: self._latest_analysis = analysis
ProcProcess ==
    /\ ppc = "process"
    /\ analysis' = Process(pframe, analysis)
    /\ latest_analysis' = analysis'
    /\ ppc' = "put"
    /\ UNCHANGED <<srcVars, stop_event, frame_queue, result_queue,
                   latest_capture_ts, dropped_frames, capVars, pframe,
                   skipped_counter, runVars, extVars, histVars>>

\* while not stop: try result_queue.put((frame, analysis), timeout=0.5); break
ProcPut ==
    /\ ppc = "put"
    /\ IF stop_event
       THEN UNCHANGED result_queue
       ELSE /\ ~QueueFull(result_queue, ResultBufferSize)
            /\ result_queue' = QueuePut(result_queue,
                                        [frame |-> pframe, analysis |-> analysis])
    /\ ppc' = "loop"
    /\ UNCHANGED <<srcVars, stop_event, frame_queue, latest_capture_ts,
                   latest_analysis, dropped_frames, capVars, pframe,
                   skipped_counter, analysis, runVars, extVars, histVars>>

ProcessingStep ==
    /\ ProcLoop \/ ProcGet \/ ProcLag \/ ProcProcess \/ ProcPut
    /\ UNCHANGED nonPipelineVars

\* ------------------------------------------------------------------ stop()
\* self.source.release(): OpenCVSource drops its capture handle.
SourceRelease ==
    /\ releases' = releases + 1
    /\ srcOpen' = FALSE
    /\ UNCHANGED <<srcPos, srcTs, src_gaps>>

\* ------------------------------------------------- run() and its caller
\* self.start(): clear the flag, start both threads.
RunStart ==
    /\ rpc = "init"
    /\ stop_event' = FALSE
    /\ cpc' = "next"
    /\ ppc' = "loop"
    /\ rpc' = "prebuffer"
    /\ UNCHANGED <<srcVars, frame_queue, result_queue, latest_capture_ts,
                   latest_analysis, dropped_frames, cframe, pframe,
                   skipped_counter, analysis, yielded, gen_closed, extVars,
                   histVars>>

\* Variant: run() that starts playback without waiting for the depth.
RunPrebufferNoWait ==
    /\ rpc = "prebuffer"
    /\ rpc' = "loop"
    /\ UNCHANGED <<srcVars, pipeVars, capVars, procVars, yielded, gen_closed,
                   extVars, histVars>>

\* while self.result_queue.qsize() < 5 and not stop: time.sleep(0.1)
RunPrebuffer ==
    /\ rpc = "prebuffer"
    /\ ~(Len(result_queue) < PreBufferDepth /\ ~stop_event)
    /\ rpc' = "loop"
    /\ UNCHANGED <<srcVars, pipeVars, capVars, procVars, yielded, gen_closed,
                   extVars, histVars>>

\* while not self._stop_event.is_set():
RunLoop ==
    /\ rpc = "loop"
    /\ rpc' = IF stop_event THEN "stop_set" ELSE "get"
    /\ UNCHANGED <<srcVars, pipeVars, capVars, procVars, yielded, gen_closed,
                   extVars, histVars>>

\* frame, analysis = self.result_queue.get(timeout=0.1); yield frame, analysis
RunGet ==
    /\ rpc = "get"
    /\ IF result_queue = <<>>
       THEN rpc' = "loop" /\ UNCHANGED <<result_queue, yielded>>
       ELSE /\ yielded' = Append(yielded, Head(result_queue))
            /\ result_queue' = Tail(result_queue)
            /\ rpc' = "yielded"
    /\ UNCHANGED <<srcVars, stop_event, frame_queue, latest_capture_ts,
                   latest_analysis, dropped_frames, capVars, procVars,
                   gen_closed, extVars, histVars>>

\* The caller asks for the next pair: pacing sleep, then the loop test.
RunResume ==
    /\ rpc = "yielded"
    /\ rpc' = "loop"
    /\ UNCHANGED <<srcVars, pipeVars, capVars, procVars, yielded, gen_closed,
                   extVars, histVars>>

\* The caller closes (or drops) the suspended generator: finally: self.stop()
RunClose ==
    /\ rpc = "yielded"
    /\ gen_closed' = TRUE
    /\ rpc' = "stop_set"
    /\ UNCHANGED <<srcVars, pipeVars, capVars, procVars, yielded, extVars,
                   histVars>>

\* finally: self.stop(), first statement: self._stop_event.set()
RunStopSet ==
    /\ rpc = "stop_set"
    /\ stop_event' = TRUE
    /\ rpc' = "release"
    /\ UNCHANGED <<srcVars, frame_queue, result_queue, latest_capture_ts,
                   latest_analysis, dropped_frames, capVars, procVars,
                   yielded, gen_closed, extVars, histVars>>

\* The rest of stop(): each join(timeout=2.0) returns once its thread has
\* ended or 2 s have passed, changing nothing; then self.source.release().
RunRelease ==
    /\ rpc = "release"
    /\ SourceRelease
    /\ stop_returned' = TRUE
    /\ rpc' = "done"
    /\ UNCHANGED <<pipeVars, capVars, procVars, yielded, gen_closed, spc,
                   stopCalls, histVars>>

RunStep ==
    /\ \/ RunStart \/ RunPrebuffer \/ RunLoop \/ RunGet \/ RunResume
       \/ RunClose \/ RunStopSet \/ RunRelease
    /\ UNCHANGED nonPipelineVars

\* -------------------------------------- stop() called by an outside caller
ExtStopSet ==
    /\ spc = "idle"
    /\ rpc # "init"
    /\ stopCalls < MaxStopCalls
    /\ stopCalls' = stopCalls + 1
    /\ stop_event' = TRUE
    /\ spc' = "release"
    /\ UNCHANGED <<srcVars, frame_queue, result_queue, latest_capture_ts,
                   latest_analysis, dropped_frames, capVars, procVars,
                   runVars, stop_returned, histVars>>

ExtRelease ==
    /\ spc = "release"
    /\ SourceRelease
    /\ stop_returned' = TRUE
    /\ spc' = "idle"
    /\ UNCHANGED <<pipeVars, capVars, procVars, runVars, stopCalls,
                   histVars>>

ExtStopStep ==
    /\ ExtStopSet \/ ExtRelease
    /\ UNCHANGED nonPipelineVars

\* ------------------------------------------------------------------ specs
NextPipeline == CaptureStep \/ ProcessingStep \/ RunStep \/ ExtStopStep

SpecPipeline == Init /\ [][NextPipeline]_vars

\* The two worker threads are scheduled by the operating system: a step a
\* worker can take is taken eventually.  Cancellation does not read the
\* timestamps, so the steady source is used.
SpecPipelineFair ==
    /\ InitSteady /\ [][NextPipeline]_vars
    /\ WF_vars(CaptureStep)
    /\ WF_vars(ProcessingStep)

\* The pipeline left to itself (no outside stop()) on a jittering source.
NextCatchUp == CaptureStep \/ ProcessingStep \/ RunStep

SpecCatchUp == InitCatchUp /\ [][NextCatchUp]_vars


\* ------------------------------------------------------ RealtimeBroadcaster
\* Each coroutine below runs without suspending: the lock is free whenever
\* it is asked for (no holder ever awaits), and a new queue is never full.

\* self._subscribers[camera_id].add(queue), creating the key when missing.
AddSubscriber(subs, c, q) ==
    [k \in DOMAIN subs \cup {c} |->
        IF k = c THEN (IF c \in DOMAIN subs THEN subs[c] ELSE {}) \cup {q}
        ELSE subs[k]]

\* Variant: discard(queue) only, the key stays with an empty set.
RemoveSubscriberKeepsKey(subs, c, q) ==
    IF c \notin DOMAIN subs THEN subs
    ELSE [subs EXCEPT ![c] = subs[c] \ {q}]

\* discard(queue); del self._subscribers[camera_id] when the set is empty.
RemoveSubscriber(subs, c, q) ==
    IF c \notin DOMAIN subs THEN subs
    ELSE IF subs[c] \ {q} = {}
         THEN [k \in DOMAIN subs \ {c} |-> subs[k]]
         ELSE [subs EXCEPT ![c] = subs[c] \ {q}]

\* if camera_id in self._latest_state: await queue.put(self._latest_state[..])
InitialItems(ls, c) == IF c \in DOMAIN ls THEN <<ls[c]>> ELSE <<>>

\* Variant: setdefault, the cache keeps the first state of a camera.
UpdateCacheFirstOnly(ls, c, data) ==
    [k \in DOMAIN ls \cup {c} |-> IF k \in DOMAIN ls THEN ls[k] ELSE data]

\* self._latest_state[camera_id] = analysis_data
UpdateCache(ls, c, data) ==
    [k \in DOMAIN ls \cup {c} |-> IF k = c THEN data ELSE ls[k]]

\* self._subscribers.get(camera_id, set()).copy()
SubscribersOf(subs, c) == IF c \in DOMAIN subs THEN subs[c] ELSE {}

\* Variant: QueueFull is not caught inside the loop; the loop (here in queue
\* order) ends at the first full queue.
DeliverStopAtFull(items, maxsize, targets, data) ==
    [q \in DOMAIN items |->
        IF /\ q \in targets
           /\ \A r \in targets : r <= q => ~QueueFull(items[r], maxsize[r])
        THEN QueuePut(items[q], data)
        ELSE items[q]]

\* Variant: on QueueFull the oldest item is evicted and the data enqueued.
DeliverDropOldest(items, maxsize, targets, data) ==
    [q \in DOMAIN items |->
        IF q \in targets
        THEN IF QueueFull(items[q], maxsize[q])
             THEN QueuePut(Tail(items[q]), data)
             ELSE QueuePut(items[q], data)
        ELSE items[q]]

\* Variant: the loop runs over every queue of the table, whatever its key.
DeliverToAllCameras(items, maxsize, targets, data) ==
    [q \in DOMAIN items |->
        IF ~QueueFull(items[q], maxsize[q])
        THEN QueuePut(items[q], data)
        ELSE items[q]]

\* for queue in subscribers: try queue.put_nowait(data) / except QueueFull: skip
Deliver(items, maxsize, targets, data) ==
    [q \in DOMAIN items |->
        IF q \in targets /\ ~QueueFull(items[q], maxsize[q])
        THEN QueuePut(items[q], data)
        ELSE items[q]]

Subscribe(c, size) ==
    /\ Len(q_items) < MaxSubscribes
    /\ LET q     == Len(q_items) + 1
           first == InitialItems(bc_latest_state, c)
       IN /\ subscribers' = AddSubscriber(subscribers, c, q)
          /\ q_items' = Append(q_items, first)
          /\ q_maxsize' = Append(q_maxsize, size)
          /\ q_camera' = Append(q_camera, c)
          /\ last_op' = [op |-> "subscribe", queue |-> q, camera |-> c,
                         published |-> published[c]]
    /\ UNCHANGED <<bc_latest_state, msgCount, published, dropped>>

Unsubscribe(c, q) ==
    /\ subscribers' = RemoveSubscriber(subscribers, c, q)
    /\ last_op' = NoOp
    /\ UNCHANGED <<bc_latest_state, q_items, q_maxsize, q_camera, msgCount,
                   published, dropped>>

Broadcast(c) ==
    /\ msgCount < MaxBroadcasts
    /\ LET data    == msgCount + 1
           targets == SubscribersOf(subscribers, c)
           after   == Deliver(q_items, q_maxsize, targets, data)
           full    == {q \in targets : QueueFull(q_items[q], q_maxsize[q])}
       IN /\ msgCount' = data
          /\ bc_latest_state' = UpdateCache(bc_latest_state, c, data)
          /\ q_items' = after
          /\ published' = [published EXCEPT ![c] = data]
          /\ dropped' = dropped \cup {<<q, data>> : q \in full}
          /\ last_op' = [op |-> "broadcast", camera |-> c, data |-> data,
                         room |-> targets \ full, full |-> full]
    /\ UNCHANGED <<subscribers, q_maxsize, q_camera>>

\* The subscriber's event_generator, until it unsubscribes:
\* data = await queue.get()
SubscriberGet(q) ==
    /\ \E c \in DOMAIN subscribers : q \in subscribers[c]
    /\ q_items[q] # <<>>
    /\ q_items' = [q_items EXCEPT ![q] = Tail(@)]
    /\ last_op' = NoOp
    /\ UNCHANGED <<subscribers, bc_latest_state, q_maxsize, q_camera,
                   msgCount, published, dropped>>

NextBroadcaster ==
    /\ \/ \E c \in Cameras, size \in QueueSizes : Subscribe(c, size)
       \/ \E c \in Cameras, q \in DOMAIN q_items : Unsubscribe(c, q)
       \/ \E c \in Cameras : Broadcast(c)
       \/ \E q \in DOMAIN q_items : SubscriberGet(q)
    /\ UNCHANGED nonBroadcasterVars

InitBroadcasterSpec ==
    /\ InitPipelineState /\ src_gaps = JitterClock /\ InitBroadcaster
    /\ IdleAggregator

SpecBroadcaster == InitBroadcasterSpec /\ [][NextBroadcaster]_vars


\* ---------------------------------------------------- TrafficDataAggregator
\* Numbers the code keeps as floats are kept exact: a quotient is the pair
\* of its numerator and denominator, 0.0 is 0/1.
Ratio(n, d) == [num |-> n, den |-> d]
ZeroRatio == Ratio(0, 1)

RECURSIVE SumSeq(_)
SumSeq(xs) == IF xs = <<>> THEN 0 ELSE Head(xs) + SumSeq(Tail(xs))

RECURSIVE SortedSeq(_)
SortedSeq(S) ==
    IF S = {} THEN <<>>
    ELSE LET m == CHOOSE x \in S : \A y \in S : x <= y
         IN <<m>> \o SortedSeq(S \ {m})

\* The ZoneVehicleCount that ZoneCounter builds for a zone holding the
\* vehicles of `details` (id -> type), their mean speed being `speed`.
ZoneSnapshot(zone_id, details, speed) ==
    [zone_id |-> zone_id,
     vehicle_count |-> Cardinality(DOMAIN details),
     vehicles |-> SortedSeq(DOMAIN details),
     vehicle_details |-> details,
     avg_speed |-> speed]

\* A FrameAnalysis, as far as the aggregator reads it: its zones.
Analysis(zones) == [zones |-> zones]

\* for analysis in buffer: if not analysis.zones: continue;
\*     for zone in analysis.zones: ...   (every snapshot, in buffer order)
RECURSIVE BufferedSnapshots(_)
BufferedSnapshots(buf) ==
    IF buf = <<>> THEN <<>>
    ELSE Head(buf).zones \o BufferedSnapshots(Tail(buf))

\* The keys of zone_stats, in insertion order (a dict keeps it).
RECURSIVE ZoneOrder(_, _)
ZoneOrder(snaps, seen) ==
    IF snaps = <<>> THEN <<>>
    ELSE IF Head(snaps).zone_id \in seen
         THEN ZoneOrder(Tail(snaps), seen)
         ELSE <<Head(snaps).zone_id>>
              \o ZoneOrder(Tail(snaps), seen \cup {Head(snaps).zone_id})

\* zone_stats[zone_id]: the snapshots of one zone, in buffer order.
StatusesOf(snaps, z) == SelectSeq(snaps, LAMBDA s : s.zone_id = z)

\* avg_density = sum(counts) / len(counts)
AvgDensity(statuses) ==
    Ratio(SumSeq([i \in 1..Len(statuses) |-> statuses[i].vehicle_count]),
          Len(statuses))

Qualifies(s) == s.avg_speed > 0 /\ s.vehicle_count > 0

\* Variant: the mean of the per-frame speeds, each frame weighing the same.
AvgSpeedFrameWeighted(statuses) ==
    LET q == SelectSeq(statuses, Qualifies)
    IN IF Len(q) > 0
       THEN Ratio(SumSeq([i \in 1..Len(q) |-> q[i].avg_speed]), Len(q))
       ELSE ZeroRatio

\* total_speed_sum / total_vehicles_with_speed, over the snapshots with
\* avg_speed > 0 and vehicle_count > 0; 0.0 when there are none.
AvgSpeed(statuses) ==
    LET q == SelectSeq(statuses, Qualifies)
        total_speed_sum ==
            SumSeq([i \in 1..Len(q) |-> q[i].avg_speed * q[i].vehicle_count])
        total_vehicles_with_speed ==
            SumSeq([i \in 1..Len(q) |-> q[i].vehicle_count])
    IN IF total_vehicles_with_speed > 0
       THEN Ratio(total_speed_sum, total_vehicles_with_speed)
       ELSE ZeroRatio

\* unique_vehicles: the set of the ids of every s.vehicles.
UniqueVehicles(statuses) ==
    UNION {{statuses[i].vehicles[k] : k \in 1..Len(statuses[i].vehicles)} :
           i \in 1..Len(statuses)}

\* Variant: the vehicle counts of the frames added up.
FlowRateSumOfCounts(statuses) ==
    SumSeq([i \in 1..Len(statuses) |-> statuses[i].vehicle_count])

\* flow_rate_per_min = len(unique_vehicles)
FlowRate(statuses) == Cardinality(UniqueVehicles(statuses))

\* unique_vehicles_by_type[v_type]: the ids some snapshot labels v_type.
UniqueVehiclesByType(statuses, v_type) ==
    {v \in UNION {DOMAIN statuses[i].vehicle_details : i \in 1..Len(statuses)} :
        \E i \in 1..Len(statuses) :
            /\ v \in DOMAIN statuses[i].vehicle_details
            /\ statuses[i].vehicle_details[v] = v_type}

TypeCount(statuses, v_type) ==
    Cardinality(UniqueVehiclesByType(statuses, v_type))

\* The TrafficData of one zone (metadata and occupancy left out).
ZoneTrafficData(zone_id, statuses, timestamp, duration) ==
    [zone_id |-> zone_id,
     timestamp |-> timestamp,
     duration_seconds |-> duration,
     avg_density |-> AvgDensity(statuses),
     total_vehicles |-> FlowRate(statuses),
     avg_speed |-> AvgSpeed(statuses),
     flow_rate_per_min |-> FlowRate(statuses),
     car_count |-> TypeCount(statuses, "car"),
     bus_count |-> TypeCount(statuses, "bus"),
     truck_count |-> TypeCount(statuses, "truck"),
     motorcycle_count |-> TypeCount(statuses, "motorcycle")]

\* _compute_aggregates / the body of flush(): one TrafficData per key of
\* zone_stats, in key order.
ComputeAggregates(buf, timestamp, duration) ==
    LET snaps == BufferedSnapshots(buf)
        order == ZoneOrder(snaps, {})
    IN [i \in 1..Len(order) |->
           ZoneTrafficData(order[i], StatusesOf(snaps, order[i]),
                           timestamp, duration)]

\* if current_time - self.last_flush_time >= self.window_duration
\* Variant: the comparison is strict.
WindowElapsedStrict(current_time, last) == current_time - last > WindowDuration

WindowElapsed(current_time, last) == current_time - last >= WindowDuration

\* flush() on the buffer `buf` at time `timestamp`: what it leaves behind.
\* repository.save raises at the fails_at-th zone (never, when fails_at is
\* past the last zone): the exception leaves flush() before the buffer is
\* cleared and before the timer is reset.
FlushOutcome(buf, last, timestamp, fails_at) ==
    IF buf = <<>>
    THEN [buffer |-> buf, last_flush_time |-> timestamp, saved |-> <<>>,
          raised |-> FALSE]
    ELSE LET data == ComputeAggregates(buf, timestamp, timestamp - last)
         IN IF fails_at \in 1..Len(data)
            THEN [buffer |-> buf, last_flush_time |-> last,
                  saved |-> SubSeq(data, 1, fails_at - 1), raised |-> TRUE]
            ELSE [buffer |-> <<>>, last_flush_time |-> timestamp,
                  saved |-> data, raised |-> FALSE]

\* The zones at which save may raise: none with a sound repository.
SaveFailures(buf) ==
    IF repo_faulty
    THEN 1..(Len(ZoneOrder(BufferedSnapshots(buf), {})) + 1)
    ELSE {Len(ZoneOrder(BufferedSnapshots(buf), {})) + 1}

\* self.flush(), the saves taking d ticks of the clock.
SyncFlushCall(op, buf, given) ==
    \E fails_at \in SaveFailures(buf), d \in flush_durations :
        LET out == FlushOutcome(buf, last_flush_time, clock, fails_at)
        IN /\ clock + d <= MaxTime
           /\ clock' = clock + d
           /\ buffer' = out.buffer
           /\ last_flush_time' = out.last_flush_time
           /\ agg_last' = [op |-> op, given |-> given, flushed |-> TRUE,
                           window |-> buf, saved |-> out.saved,
                           raised |-> out.raised, timestamp |-> clock,
                           since |-> last_flush_time]

\* TrafficDataAggregator.aggregate_and_persist(analysis)
SyncAggregateAndPersist(a) ==
    /\ Len(buffer) < MaxBuffer
    /\ IF WindowElapsed(clock, last_flush_time)
       THEN SyncFlushCall("aggregate_and_persist", Append(buffer, a), a)
       ELSE /\ buffer' = Append(buffer, a)
            /\ agg_last' = [op |-> "aggregate_and_persist", given |-> a,
                            flushed |-> FALSE, window |-> <<>>,
                            saved |-> <<>>, raised |-> FALSE,
                            timestamp |-> clock, since |-> last_flush_time]
            /\ UNCHANGED <<clock, last_flush_time>>
    /\ UNCHANGED aggEnvVars

\* TrafficDataAggregator.flush() called from outside (tests, shutdown).
SyncFlush ==
    /\ SyncFlushCall("flush", buffer, Analysis(<<>>))
    /\ UNCHANGED aggEnvVars

\* time.time() moves on between two calls.
Tick ==
    /\ clock < MaxTime
    /\ clock' = clock + 1
    /\ agg_last' = NoOp
    /\ UNCHANGED <<aggEnvVars, buffer, last_flush_time>>

\* ---- the analyses handed to the aggregator
\* vehicle_details maps of at most two vehicles, types car and truck.
DetailMaps ==
    UNION {[ids -> {"car", "truck"}] :
           ids \in {S \in SUBSET VehicleIds : Cardinality(S) <= 2}}

\* One zone, vehicles of changing type and no speed; and two zones at once.
TypedInputs ==
    {Analysis(<<ZoneSnapshot("zone1", d, 0)>>) : d \in DetailMaps}
    \cup {Analysis(<<ZoneSnapshot("zone1", [v \in {1} |-> "car"], 0),
                     ZoneSnapshot("zone2", [v \in {2, 3} |-> "truck"], 0)>>)}

\* One zone, snapshots that differ in vehicle_count and avg_speed.
SpeedInputs ==
    {Analysis(<<[zone_id |-> "zone1", vehicle_count |-> n,
                 vehicles |-> SortedSeq(1..n),
                 vehicle_details |-> [v \in 1..n |-> "car"],
                 avg_speed |-> sp]>>) : n \in 0..2, sp \in {0, 10, 20}}

\* No zone, one zone, two zones.
WindowInputs ==
    {Analysis(<<>>),
     Analysis(<<ZoneSnapshot("zone1", [v \in {1} |-> "car"], 10)>>),
     Analysis(<<ZoneSnapshot("zone2", [v \in {2} |-> "truck"], 0),
                ZoneSnapshot("zone1", [v \in {1, 3} |-> "car"], 20)>>)}

\* The aggregate functions on every window of up to MaxBuffer analyses,
\* flushed by hand as the tests do.
InitAggregates ==
    /\ InitPipelineState /\ src_gaps = {1} /\ InitBroadcaster
    /\ InitAggregator /\ InitZoneCounter /\ InitLater
    /\ agg_inputs \in {TypedInputs, SpeedInputs}
    /\ flush_durations = {0} /\ repo_faulty = FALSE

SyncAggregateStep ==
    /\ \E a \in agg_inputs : SyncAggregateAndPersist(a)
    /\ UNCHANGED <<nonAggregatorVars, asyncAggVars>>

SyncFlushStep ==
    /\ SyncFlush
    /\ UNCHANGED <<nonAggregatorVars, asyncAggVars>>

ClockStep ==
    /\ Tick
    /\ UNCHANGED <<nonAggregatorVars, asyncAggVars>>

NextAggregates == SyncAggregateStep \/ SyncFlushStep

SpecAggregates == InitAggregates /\ [][NextAggregates]_vars

\* The aggregator over time, with a repository that may fail.
InitWindows ==
    /\ InitPipelineState /\ src_gaps = {1} /\ InitBroadcaster
    /\ InitAggregator /\ InitZoneCounter /\ InitLater
    /\ agg_inputs = WindowInputs
    /\ flush_durations = {0, 1} /\ repo_faulty \in BOOLEAN

NextWindows == SyncAggregateStep \/ SyncFlushStep \/ ClockStep

SpecWindows == InitWindows /\ [][NextWindows]_vars

\* ======================================================================
\* Properties of the frame pipeline
\* ======================================================================
YieldedId(i) == yielded[i].frame.id

\* C1: the pairs run() yields have strictly increasing frame.id: no frame
\* is yielded twice, none out of source order; gaps are allowed.
C1_YieldOrder ==
    \A i \in 1..(Len(yielded) - 1) : YieldedId(i) < YieldedId(i + 1)

\* Two pairs have been yielded, with a skipped frame between them.
C1_Witness ==
    \E i \in 1..(Len(yielded) - 1) : YieldedId(i + 1) > YieldedId(i) + 1

\* C2: for a finite source with no frame skipped by catch-up, when run()
\* has ended on its own (end of stream, no outside stop(), generator not
\* closed) it has yielded one pair per source frame, in source order, and
\* the source has been released.
C2_AllFramesDelivered ==
    ( /\ rpc = "done" /\ stopCalls = 0 /\ ~gen_closed
      /\ \A i \in 1..Len(decisions) : decisions[i].processed )
    => /\ Len(yielded) = NumFrames
       /\ \A i \in 1..Len(yielded) : YieldedId(i) = i - 1
       /\ releases >= 1

AllTier(i, j, t) == \A k \in i..j : decisions[k].tier = t
ProcessedIn(i, j) == Cardinality({k \in i..j : decisions[k].processed})

\* C3: over consecutively dequeued frames whose lag stays in one tier the
\* worker processes every frame (lag <= 1.5 s), exactly one of every 2
\* consecutive frames (1.5 s < lag <= 2.5 s), exactly one of every 3
\* consecutive frames (lag > 2.5 s); over n frames of sustained lag > 2.5 s
\* the number processed is n/3 within one frame.
C3_CatchUpSkipping ==
    LET n == Len(decisions) IN
    /\ \A i \in 1..n : decisions[i].tier = 0 => decisions[i].processed
    /\ \A i \in 1..(n - 1) : AllTier(i, i + 1, 1) => ProcessedIn(i, i + 1) = 1
    /\ \A i \in 1..(n - 2) : AllTier(i, i + 2, 2) => ProcessedIn(i, i + 2) = 1
    /\ \A i \in 1..n : \A j \in i..n :
          AllTier(i, j, 2) =>
             LET p == ProcessedIn(i, j)
                 m == j - i + 1
             IN 3 * p > m - 3 /\ 3 * p < m + 3

\* Three frames in a row met lag > 2.5 s and, elsewhere, two in a row the
\* middle tier.
C3_Witness ==
    LET n == Len(decisions) IN
    /\ \E i \in 1..(n - 2) : AllTier(i, i + 2, 2)
    /\ \E i \in 1..(n - 1) : AllTier(i, i + 1, 1)

C5_QueueBounds ==
    /\ Len(frame_queue) <= FrameBufferSize
    /\ Len(result_queue) <= ResultBufferSize

\* frame_queue is full with the capture worker waiting to put, while
\* results are queued for a consumer that has not taken them.
C5_Witness ==
    /\ Len(frame_queue) = FrameBufferSize /\ cpc = "put" /\ ~stop_event
    /\ Len(result_queue) >= 2

WorkersDone == cpc = "done" /\ ppc = "done"

C7_ReleasedExactlyOnce ==
    /\ releases <= 1
    /\ (rpc = "done" /\ spc = "idle") => releases = 1

\* ======================================================================
\* Properties of the broadcaster
\* ======================================================================
Items(q) == {q_items[q][i] : i \in 1..Len(q_items[q])}

\* C8: the queue subscribe(camera) returns holds exactly the data most
\* recently broadcast to that camera, as its first item, and is empty when
\* nothing was ever broadcast to that camera.
C8_CachedStateOnSubscribe ==
    last_op.op = "subscribe" =>
        q_items[last_op.queue] =
            IF last_op.published = NoData THEN <<>>
            ELSE <<last_op.published>>

\* subscribe() has just returned for a camera that had been broadcast to,
\* after at least two broadcasts.
C8_Witness ==
    /\ last_op.op = "subscribe"
    /\ last_op.published # NoData
    /\ msgCount >= 2

\* C9: a broadcast reaches every subscriber of the camera whose queue has
\* room, and is dropped for exactly those whose queue is full.
C9_Isolation ==
    last_op.op = "broadcast" =>
        /\ \A q \in last_op.room :
              /\ q_items[q] # <<>>
              /\ q_items[q][Len(q_items[q])] = last_op.data
        /\ \A q \in last_op.full :
              /\ last_op.data \notin Items(q)
              /\ Len(q_items[q]) = q_maxsize[q]

\* A broadcast has just met a full subscriber and one with room.
C9_Witness ==
    /\ last_op.op = "broadcast"
    /\ last_op.room # {}
    /\ last_op.full # {}

\* C10: data dropped for a subscriber on a full queue is never in that
\* subscriber's queue afterwards, and no queue holds more than its
\* queue_size items.
C10_DroppedIsLost ==
    /\ \A d \in dropped : d[2] \notin Items(d[1])
    /\ \A q \in DOMAIN q_items : Len(q_items[q]) <= q_maxsize[q]

\* A queue that missed some data has later received newer data.
C10_Witness ==
    \E d \in dropped : \E x \in Items(d[1]) : x > d[2]

\* C11: broadcast(camera, m) enqueues m, as the newest item, to every queue
\* subscribed to that camera (with room, see C9) and to no queue subscribed
\* to a different camera.
C11_BroadcastRouting ==
    last_op.op = "broadcast" =>
        /\ \A q \in SubscribersOf(subscribers, last_op.camera) \ last_op.full :
              /\ q_items[q] # <<>>
              /\ q_items[q][Len(q_items[q])] = last_op.data
        /\ \A c \in DOMAIN subscribers \ {last_op.camera} :
              \A q \in subscribers[c] : last_op.data \notin Items(q)

\* A broadcast has just reached a subscriber of its camera while another
\* camera has a subscriber with room in its queue.
C11_Witness ==
    /\ last_op.op = "broadcast"
    /\ last_op.room # {}
    /\ \E c \in DOMAIN subscribers \ {last_op.camera} :
          \E q \in subscribers[c] : ~QueueFull(q_items[q], q_maxsize[q])

\* A queue that was subscribed and has been unsubscribed.
Unsubscribed(q) == \A c \in DOMAIN subscribers : q \notin subscribers[c]

\* C12: no step enqueues anything to a queue that has been unsubscribed,
\* and the subscriber table never keeps a camera key with no subscriber:
\* the key goes with its last subscriber.
C12_NoDeliveryAfterUnsubscribe ==
    [][ /\ \A q \in DOMAIN q_items :
              Unsubscribed(q) => q_items'[q] = q_items[q]
        /\ \A c \in DOMAIN subscribers' : subscribers'[c] # {} ]_vars

\* A broadcast has just gone to a camera whose only subscriber had
\* unsubscribed, the key being gone, while that queue was not full.
C12_Witness ==
    /\ last_op.op = "broadcast"
    /\ last_op.camera \notin DOMAIN subscribers
    /\ \E q \in DOMAIN q_items :
          /\ q_camera[q] = last_op.camera
          /\ Unsubscribed(q)
          /\ ~QueueFull(q_items[q], q_maxsize[q])

\* ----------------------------------------------- AsyncTrafficDataAggregator
\* _schedule_flush(), called with buffer_lock held, on the buffer `buf`:
\* aggregate, clear the buffer, reset the timer, put_nowait the batch and
\* give the batch up when flush_queue is full.
ScheduleFlush(buf) ==
    IF buf = <<>>
    THEN /\ a_buffer' = buf
         /\ a_last_flush_time' = clock
         /\ UNCHANGED <<flush_queue, a_put, a_dropped>>
    ELSE LET aggregated_data ==
                 ComputeAggregates(buf, clock, clock - a_last_flush_time)
         IN /\ a_buffer' = <<>>
            /\ a_last_flush_time' = clock
            /\ IF QueueFull(flush_queue, FlushQueueSize)
               THEN /\ a_dropped' = a_dropped + 1
                    /\ UNCHANGED <<flush_queue, a_put>>
               ELSE /\ flush_queue' = QueuePut(flush_queue, aggregated_data)
                    /\ a_put' = a_put + 1
                    /\ UNCHANGED a_dropped

\* AsyncTrafficDataAggregator.aggregate_and_persist(analysis), by the
\* processing worker, until shutdown begins.
AsyncAggregateAndPersist(a) ==
    /\ apc = "idle"
    /\ Len(a_buffer) < MaxBuffer
    /\ IF WindowElapsed(clock, a_last_flush_time)
       THEN ScheduleFlush(Append(a_buffer, a))
       ELSE /\ a_buffer' = Append(a_buffer, a)
            /\ UNCHANGED <<a_last_flush_time, flush_queue, a_put, a_dropped>>
    /\ UNCHANGED <<clock, a_stop_event, wpc, w_batch, apc, a_saved>>

\* stop(), first statement: self.force_flush()
AsyncStopForceFlush ==
    /\ apc = "idle"
    /\ ScheduleFlush(a_buffer)
    /\ apc' = "flushed"
    /\ UNCHANGED <<clock, a_stop_event, wpc, w_batch, a_saved>>

\* stop(): self._stop_event.set()
AsyncStopSet ==
    /\ apc = "flushed"
    /\ a_stop_event' = TRUE
    /\ apc' = "join"
    /\ UNCHANGED <<clock, a_buffer, a_last_flush_time, flush_queue, wpc,
                   w_batch, a_put, a_saved, a_dropped>>

\* stop(): self._worker_thread.join(timeout=3.0) returns, the worker having
\* ended or the 3 s having passed.
AsyncStopJoin ==
    /\ apc = "join"
    /\ apc' = "stopped"
    /\ UNCHANGED <<clock, a_buffer, a_last_flush_time, flush_queue,
                   a_stop_event, wpc, w_batch, a_put, a_saved, a_dropped>>

\* _flush_worker: while not self._stop_event.is_set():
WorkerLoop ==
    /\ wpc = "loop"
    /\ wpc' = IF a_stop_event THEN "done" ELSE "get"
    /\ UNCHANGED <<clock, a_buffer, a_last_flush_time, flush_queue,
                   a_stop_event, w_batch, apc, a_put, a_saved, a_dropped>>

\* data_batch = self.flush_queue.get(timeout=1.0) / except queue.Empty: continue
WorkerGet ==
    /\ wpc = "get"
    /\ IF flush_queue = <<>>
       THEN wpc' = "loop" /\ UNCHANGED <<flush_queue, w_batch>>
       ELSE /\ w_batch' = Head(flush_queue)
            /\ flush_queue' = Tail(flush_queue)
            /\ wpc' = "save"
    /\ UNCHANGED <<clock, a_buffer, a_last_flush_time, a_stop_event, apc,
                   a_put, a_saved, a_dropped>>

\* for data in data_batch: try: self.repository.save(data) / except: log
WorkerSave ==
    /\ wpc = "save"
    /\ a_saved' = a_saved + 1
    /\ w_batch' = <<>>
    /\ wpc' = "loop"
    /\ UNCHANGED <<clock, a_buffer, a_last_flush_time, flush_queue,
                   a_stop_event, apc, a_put, a_dropped>>

AsyncAggregateStep ==
    /\ \E a \in agg_inputs : AsyncAggregateAndPersist(a)
    /\ UNCHANGED <<nonAggregatorVars, aggEnvVars, syncAggVars>>

AsyncStopStep ==
    /\ AsyncStopForceFlush \/ AsyncStopSet \/ AsyncStopJoin
    /\ UNCHANGED <<nonAggregatorVars, aggEnvVars, syncAggVars>>

WorkerStep ==
    /\ WorkerLoop \/ WorkerGet \/ WorkerSave
    /\ UNCHANGED <<nonAggregatorVars, aggEnvVars, syncAggVars>>

\* A save that raises inside the worker is caught and logged item by item
\* (lines 173-177) and changes nothing in the worker's course.
InitAsyncAggregator ==
    /\ InitPipelineState /\ src_gaps = {1} /\ InitBroadcaster
    /\ InitAggregator /\ InitZoneCounter /\ InitLater
    /\ agg_inputs = WindowInputs
    /\ flush_durations = {0} /\ repo_faulty = FALSE

NextAsyncAggregator ==
    AsyncAggregateStep \/ AsyncStopStep \/ WorkerStep \/ ClockStep

SpecAsyncAggregator == InitAsyncAggregator /\ [][NextAsyncAggregator]_vars

\* ------------------------------------------------------------- ZoneCounter
Vehicle(id, type, bbox, speed) ==
    [id |-> id, type |-> type, bbox |-> bbox, speed |-> speed]

\* The vehicles a frame may show: inside the square, outside every zone,
\* wide and low, small.
Vehicles ==
    {Vehicle(1, "car", Rect(10, 10, 50, 50), NoSpeed),
     Vehicle(2, "car", Rect(150, 150, 190, 190), 30),
     Vehicle(3, "truck", Rect(0, 0, 100, 50), 20),
     Vehicle(4, "bus", Rect(20, 20, 40, 40), 10)}

\* The detection lists of one frame: up to MaxDetections different vehicles.
DetectionLists ==
    {d \in UNION {[1..n -> Vehicles] : n \in 0..MaxDetections} :
        \A i, j \in 1..Len(d) : i # j => d[i] # d[j]}

\* zone.trigger(detections) of the supervision library: a detection is in
\* the zone when its anchor, the bottom centre of its box, lies on the
\* filled polygon (border included).
InZone(v, polygon) ==
    LET ax == (v.bbox.x1 + v.bbox.x2) \div 2
        ay == v.bbox.y2
    IN /\ polygon.x1 <= ax /\ ax <= polygon.x2
       /\ polygon.y1 <= ay /\ ay <= polygon.y2

\* speeds = [v.speed for v in vehicles_in_zone if v.speed is not None];
\* avg_speed = sum(speeds) / len(speeds) if speeds else 0.0
ZoneAvgSpeed(vehicles_in_zone) ==
    LET speeds == SelectSeq([i \in 1..Len(vehicles_in_zone) |->
                                vehicles_in_zone[i].speed],
                            LAMBDA sp : sp # NoSpeed)
    IN IF speeds # <<>> THEN Ratio(SumSeq(speeds), Len(speeds)) ELSE ZeroRatio

\* min(a / b, 1.0)
MinWithOne(q) == IF q.num > q.den THEN Ratio(1, 1) ELSE q

\* Variant: the quotient is not capped.
OccupancyUncapped(vehicles_in_zone, zone_area) ==
    IF zone_area > 0
    THEN Ratio(SumSeq([i \in 1..Len(vehicles_in_zone) |->
                          RectArea(vehicles_in_zone[i].bbox)]), zone_area)
    ELSE ZeroRatio

\* if zone_area > 0: occupancy = min(total_vehicle_area / zone_area, 1.0)
Occupancy(vehicles_in_zone, zone_area) ==
    IF zone_area > 0
    THEN LET total_vehicle_area ==
                 SumSeq([i \in 1..Len(vehicles_in_zone) |->
                            RectArea(vehicles_in_zone[i].bbox)])
         IN MinWithOne(Ratio(total_vehicle_area, zone_area))
    ELSE ZeroRatio

\* vehicle_types[v.type] = vehicle_types.get(v.type, 0) + 1
TypesCount(vehicles_in_zone) ==
    [t \in {vehicles_in_zone[i].type : i \in 1..Len(vehicles_in_zone)} |->
        Cardinality({i \in 1..Len(vehicles_in_zone) :
                        vehicles_in_zone[i].type = t})]

\* The ZoneVehicleCount of one zone for a frame with detections.
CountZone(zone, detections) ==
    LET vehicles_in_zone ==
            SelectSeq(detections, LAMBDA v : InZone(v, zone.polygon))
        count == Len(vehicles_in_zone)
    IN [zone_id |-> zone.zone_id,
        vehicle_count |-> count,
        vehicles |-> [i \in 1..count |-> vehicles_in_zone[i].id],
        vehicle_details |->
            [id \in {vehicles_in_zone[i].id : i \in 1..count} |->
                (CHOOSE v \in {vehicles_in_zone[i] : i \in 1..count} :
                     v.id = id).type],
        avg_speed |-> IF count > 0 THEN ZoneAvgSpeed(vehicles_in_zone)
                      ELSE ZeroRatio,
        occupancy |-> IF count > 0
                      THEN Occupancy(vehicles_in_zone, zone.area)
                      ELSE ZeroRatio,
        vehicle_types |-> IF count > 0 THEN TypesCount(vehicles_in_zone)
                          ELSE <<>>]

\* The ZoneVehicleCount of one zone for a frame without detections: the
\* dataclass defaults.
EmptyZoneCount(zone) ==
    [zone_id |-> zone.zone_id, vehicle_count |-> 0, vehicles |-> <<>>,
     vehicle_details |-> <<>>, avg_speed |-> ZeroRatio,
     occupancy |-> ZeroRatio, vehicle_types |-> <<>>]

\* ZoneCounter.count_vehicles_in_zones(detections)
CountVehiclesInZones(zones, detections) ==
    IF detections = <<>>
    THEN [i \in 1..Len(zones) |-> EmptyZoneCount(zones[i])]
    ELSE [i \in 1..Len(zones) |-> CountZone(zones[i], detections)]

\* The FrameAnalysis the detector returns: vehicles, and zones = None.
DetectorAnalysis(detections) ==
    [vehicles |-> detections, has_zones |-> FALSE, zones |-> <<>>]

\* ZoneProcessor._process: if analysis and analysis.vehicles:
\*     analysis.zones = self.zone_counter.count_vehicles_in_zones(...)
ZoneProcess(zones, fa) ==
    IF fa.vehicles # <<>>
    THEN [fa EXCEPT !.has_zones = TRUE,
                    !.zones = CountVehiclesInZones(zones, fa.vehicles)]
    ELSE fa

\* count_vehicles_in_zones called directly, as the tests do.
CountDirect(detections) ==
    /\ zc_last' = [op |-> "count_vehicles_in_zones",
                   detections |-> detections,
                   analysis |-> [vehicles |-> detections, has_zones |-> TRUE,
                                 zones |-> CountVehiclesInZones(zc_zones,
                                                                detections)]]
    /\ UNCHANGED zc_zones

\* One frame through the chain: DetectionProcessor, then ZoneProcessor.
ChainProcess(detections) ==
    /\ zc_last' = [op |-> "process",
                   detections |-> detections,
                   analysis |-> ZoneProcess(zc_zones,
                                            DetectorAnalysis(detections))]
    /\ UNCHANGED zc_zones

\* ZoneCounter.update_zone(zone_id, points): replace or add the polygon and
\* recompute the cached area.
UpdateZone(zone_id, polygon) ==
    /\ zc_zones' =
          IF \E i \in 1..Len(zc_zones) : zc_zones[i].zone_id = zone_id
          THEN [i \in 1..Len(zc_zones) |->
                   IF zc_zones[i].zone_id = zone_id
                   THEN ZoneEntry(zone_id, polygon) ELSE zc_zones[i]]
          ELSE Append(zc_zones, ZoneEntry(zone_id, polygon))
    /\ zc_last' = NoOp

CountDirectStep ==
    /\ \E d \in DetectionLists : CountDirect(d)
    /\ UNCHANGED nonZoneVars

ChainProcessStep ==
    /\ \E d \in DetectionLists : ChainProcess(d)
    /\ UNCHANGED nonZoneVars

UpdateZoneStep ==
    /\ \E z \in ZoneIds, polygon \in ZonePolygons : UpdateZone(z, polygon)
    /\ UNCHANGED nonZoneVars

NextZones == CountDirectStep \/ ChainProcessStep \/ UpdateZoneStep

SpecZones == InitSteady /\ [][NextZones]_vars

\* ======================================================================
\* Properties of the aggregators
\* ======================================================================
\* The places <<i, j>> of the window's snapshots of zone z.
SnapshotsAt(window, z) ==
    {p \in UNION {{<<i, j>> : j \in 1..Len(window[i].zones)} :
                  i \in 1..Len(window)} :
        window[p[1]].zones[p[2]].zone_id = z}

SnapshotOf(window, p) == window[p[1]].zones[p[2]]

RECURSIVE SumOver(_, _)
SumOver(S, f) ==
    IF S = {} THEN 0
    ELSE LET x == CHOOSE y \in S : TRUE IN f[x] + SumOver(S \ {x}, f)

\* The vehicle ids listed for zone z anywhere in the window.
DistinctIds(window, z) ==
    {v \in VehicleIds :
        \E p \in SnapshotsAt(window, z) :
            \E k \in 1..Len(SnapshotOf(window, p).vehicles) :
                SnapshotOf(window, p).vehicles[k] = v}

\* C13: every TrafficData a flush saves has flow_rate_per_min equal to
\* total_vehicles equal to the number of distinct vehicle ids listed for
\* its zone in the flushed window.
C13_UniqueFlow ==
    agg_last.op # "none" =>
        \A i \in 1..Len(agg_last.saved) :
            LET d == agg_last.saved[i] IN
            /\ d.flow_rate_per_min = d.total_vehicles
            /\ d.flow_rate_per_min =
                   Cardinality(DistinctIds(agg_last.window, d.zone_id))

\* A flush of two frames whose zone held ids {1,2} and then {2,3} has
\* saved a flow rate of 3.
C13_Witness ==
    /\ agg_last.op = "flush"
    /\ Len(agg_last.window) = 2
    /\ agg_last.window[1].zones # <<>> /\ agg_last.window[2].zones # <<>>
    /\ agg_last.window[1].zones[1].vehicles = <<1, 2>>
    /\ agg_last.window[2].zones[1].vehicles = <<2, 3>>
    /\ Len(agg_last.saved) = 1
    /\ agg_last.saved[1].flow_rate_per_min = 3

\* C14: in every TrafficData a flush saves, the four per-type counts add
\* up to total_vehicles: each distinct id is counted under one type only.
C14_TypeCountsSumToTotal ==
    agg_last.op # "none" =>
        \A i \in 1..Len(agg_last.saved) :
            LET d == agg_last.saved[i] IN
            d.car_count + d.bus_count + d.truck_count + d.motorcycle_count
                = d.total_vehicles

\* The snapshots of zone z that count for the speed, and the two sums.
SpeedFrames(window, z) ==
    {p \in SnapshotsAt(window, z) :
        /\ SnapshotOf(window, p).avg_speed # 0
        /\ SnapshotOf(window, p).vehicle_count # 0}

WeightedSpeedSum(window, z) ==
    SumOver(SpeedFrames(window, z),
            [p \in SpeedFrames(window, z) |->
                SnapshotOf(window, p).avg_speed
                    * SnapshotOf(window, p).vehicle_count])

WeightSum(window, z) ==
    SumOver(SpeedFrames(window, z),
            [p \in SpeedFrames(window, z) |->
                SnapshotOf(window, p).vehicle_count])

\* C15: the avg_speed a flush saves for a zone is
\* sum(avg_speed_i * vehicle_count_i) / sum(vehicle_count_i) over the
\* window's snapshots of the zone with both values nonzero, and 0 when no
\* snapshot qualifies.
C15_WeightedSpeed ==
    agg_last.op # "none" =>
        \A i \in 1..Len(agg_last.saved) :
            LET d == agg_last.saved[i]
                w == agg_last.window
            IN IF SpeedFrames(w, d.zone_id) = {}
               THEN d.avg_speed.num = 0
               ELSE d.avg_speed.num * WeightSum(w, d.zone_id)
                        = WeightedSpeedSum(w, d.zone_id) * d.avg_speed.den

\* A flush of speed 10 with 2 vehicles and speed 20 with 1 vehicle has
\* saved 40/3.
C15_Witness ==
    /\ agg_last.op = "flush"
    /\ Len(agg_last.window) = 2
    /\ agg_last.window[1].zones # <<>> /\ agg_last.window[2].zones # <<>>
    /\ agg_last.window[1].zones[1].avg_speed = 10
    /\ agg_last.window[1].zones[1].vehicle_count = 2
    /\ agg_last.window[2].zones[1].avg_speed = 20
    /\ agg_last.window[2].zones[1].vehicle_count = 1
    /\ Len(agg_last.saved) = 1
    /\ agg_last.saved[1].avg_speed = Ratio(40, 3)

\* The zone ids present in a window.
ZonesOf(window) ==
    {z \in ZoneIds : SnapshotsAt(window, z) # {}}

\* C16: aggregate_and_persist(analysis) appends the analysis and flushes
\* exactly when window_duration or more has passed since the last flush;
\* a flush whose saves succeed saves one TrafficData per zone id of the
\* window, leaves the buffer empty and sets the timer to the time of the
\* flush, so that two flushes it triggers are a full window apart.
C16_WindowedFlush ==
    agg_last.op = "aggregate_and_persist" =>
        /\ agg_last.flushed
             <=> agg_last.timestamp - agg_last.since >= WindowDuration
        /\ agg_last.flushed =>
             /\ agg_last.window # <<>>
             /\ agg_last.window[Len(agg_last.window)] = agg_last.given
        /\ (agg_last.flushed /\ ~agg_last.raised) =>
             /\ buffer = <<>>
             /\ last_flush_time = agg_last.timestamp
             /\ Len(agg_last.saved) = Cardinality(ZonesOf(agg_last.window))
             /\ \A z \in ZonesOf(agg_last.window) :
                   \E i \in 1..Len(agg_last.saved) :
                       agg_last.saved[i].zone_id = z
        /\ ~agg_last.flushed =>
             /\ buffer # <<>>
             /\ buffer[Len(buffer)] = agg_last.given
             /\ last_flush_time = agg_last.since
             /\ agg_last.saved = <<>>

\* aggregate_and_persist has just flushed a window of several analyses
\* over two zones, a window after an earlier flush, the saves taking time.
C16_Witness ==
    /\ agg_last.op = "aggregate_and_persist"
    /\ agg_last.flushed /\ ~agg_last.raised
    /\ agg_last.since > 0
    /\ Len(agg_last.window) >= 2
    /\ Len(agg_last.saved) = 2
    /\ clock > agg_last.timestamp

\* C17: a failure of repository.save during a flush does not leave
\* aggregate_and_persist as an exception.
C17_SaveFailureContained ==
    agg_last.op = "aggregate_and_persist" => ~agg_last.raised

\* C18: once stop() has returned the buffer has been aggregated, and once
\* the persistence worker has exited as well every batch that was placed
\* on flush_queue has been handed to repository.save.
C18_FlushOnShutdown ==
    /\ apc = "stopped" => a_buffer = <<>>
    /\ (apc = "stopped" /\ wpc = "done") =>
          /\ flush_queue = <<>>
          /\ a_saved = a_put

\* ======================================================================
\* Properties of the zone counter
\* ======================================================================
\* C19: the analysis of every frame carries exactly one ZoneVehicleCount
\* per configured zone, in configuration order, whether
\* count_vehicles_in_zones was called directly or the frame went through
\* the processor chain, and also when no vehicle was detected.
C19_OneCountPerZone ==
    zc_last.op # "none" =>
        /\ zc_last.analysis.has_zones
        /\ Len(zc_last.analysis.zones) = Len(zc_zones)
        /\ \A i \in 1..Len(zc_zones) :
              zc_last.analysis.zones[i].zone_id = zc_zones[i].zone_id

\* The detections whose id a zone count lists.
Contained(detections, zone_count) ==
    {i \in 1..Len(detections) :
        \E k \in 1..Len(zone_count.vehicles) :
            zone_count.vehicles[k] = detections[i].id}

ContainedArea(detections, zone_count) ==
    SumOver(Contained(detections, zone_count),
            [i \in Contained(detections, zone_count) |->
                RectArea(detections[i].bbox)])

NameToId(type) ==
    CASE type = "car" -> 1
      [] type = "truck" -> 2
      [] OTHER -> 0

\* self.id_to_name.get(stable_class_id, 'car')
IdToName(class_id) ==
    CASE class_id = 1 -> "car"
      [] class_id = 2 -> "truck"
      [] OTHER -> "car"

\* history.count(c)
Count(history, c) ==
    Cardinality({i \in 1..Len(history) : history[i] = c})

\* Variant: the class of the latest observation.
LatestClassIds(history) == {history[Len(history)]}

\* max(set(history), key=history.count): a class no other class outnumbers.
\* Which one of several such classes max() meets first depends on the
\* iteration order of the set, so each of them is a possible result.
StableClassIds(history) ==
    LET classes == {history[i] : i \in 1..Len(history)}
    IN  {c \in classes :
            \A d \in classes : Count(history, c) >= Count(history, d)}

\* self.class_history[tracker_id].append(current_class_id), then pop(0)
\* once the list is longer than 30.
AppendClass(history, class_id) ==
    LET appended == Append(history, class_id)
    IN  IF Len(appended) > HistoryLimit THEN Tail(appended) ELSE appended

HistoryOf(t) == IF t \in DOMAIN class_history THEN class_history[t] ELSE <<>>

ObservedOf(t) == IF t \in DOMAIN tk_observed THEN tk_observed[t] ELSE <<>>

\* How often a stream of raw types changes from one entry to the next.
Changes(stream) ==
    Cardinality({i \in 1..(Len(stream) - 1) : stream[i] # stream[i + 1]})

\* The streams after one more frame stay within the bounds of the run.
WithinRun(observed) ==
    \A t \in DOMAIN observed :
        /\ Len(observed[t]) <=
              IF t = 1 THEN MaxObservations ELSE MaxShortTrack
        /\ Changes(observed[t]) <= MaxClassChanges

\* SupervisionTracker.track(detections). tracked is what ByteTrack returns
\* for the frame: the track ids it matched, each with the raw type of its
\* detection (none at all for an empty frame).
Track(tracked) ==
    LET ids == DOMAIN tracked
        history == [t \in DOMAIN class_history \cup ids |->
                       IF t \in ids
                       THEN AppendClass(HistoryOf(t), NameToId(tracked[t]))
                       ELSE class_history[t]]
        observed == [t \in DOMAIN tk_observed \cup ids |->
                        IF t \in ids
                        THEN Append(ObservedOf(t), tracked[t])
                        ELSE tk_observed[t]]
    IN  /\ WithinRun(observed)
        /\ class_history' = history
        /\ tk_observed' = observed
        /\ \E stable \in [ids -> 0..2] :
              /\ \A t \in ids : stable[t] \in StableClassIds(history[t])
              /\ tk_last' = [op |-> "track",
                             result |-> [t \in ids |->
                                            [raw |-> tracked[t],
                                             type |-> IdToName(stable[t])]]]

TrackStep ==
    /\ \E ids \in SUBSET TrackerIds : \E tracked \in [ids -> RawTypes] :
          Track(tracked)
    /\ UNCHANGED <<coreVars, speedVars, cameraVars, syncVars, chainVars,
                   catchUpVars>>

NextTracker == TrackStep

SpecTracker == InitSteady /\ [][NextTracker]_vars

\* C21: for every track, the class history holds at most 30 entries, which
\* are the class ids of the most recent min(n, 30) of its n raw
\* observations in order, and the type track() has just reported for it is
\* the name of a class no other class of that history outnumbers; with the
\* history [car, car, truck] it reports car.
C21_ClassStabilization ==
    /\ DOMAIN class_history = DOMAIN tk_observed
    /\ \A t \in DOMAIN class_history :
          LET h == class_history[t]
              n == Len(tk_observed[t])
              kept == IF n < 30 THEN n ELSE 30
          IN  /\ Len(h) <= 30
              /\ Len(h) = kept
              /\ \A i \in 1..kept :
                    h[i] = NameToId(tk_observed[t][n - kept + i])
    /\ tk_last.op = "track" =>
          \A t \in DOMAIN tk_last.result :
             LET h == class_history[t]
                 classes == {h[i] : i \in 1..Len(h)}
                 occurrences(c) == Cardinality({i \in 1..Len(h) : h[i] = c})
             IN  /\ \E c \in classes :
                       /\ tk_last.result[t].type = IdToName(c)
                       /\ \A d \in classes :
                             occurrences(c) >= occurrences(d)
                 /\ h = <<1, 1, 2>> => tk_last.result[t].type = "car"

\* A track seen more than 30 times whose latest raw class is truck and
\* which track() has just reported as car.
C21_Witness ==
    /\ tk_last.op = "track"
    /\ \E t \in DOMAIN tk_last.result :
          /\ Len(tk_observed[t]) > 30
          /\ Len(class_history[t]) = 30
          /\ tk_last.result[t].raw = "truck"
          /\ tk_last.result[t].type = "car"

\* ====================================================================
\* SimpleSpeedEstimator
\* ====================================================================
\* The vehicles of one frame as the tracker hands them over: tracked ones,
\* an untracked one, or none; their speed is still None.
IdLists == {<<>>, <<"1">>, <<"1", "2">>, <<NoId>>}

Abs(x) == IF x < 0 THEN -x ELSE x

SamplesOf(id) == IF id \in DOMAIN se_history THEN se_history[id] ELSE <<>>

\* self.history[vehicle.id].append((current_time, center_y)), then keep the
\* samples with current_time - t < 1.0
KeepRecent(samples, sample, current_time) ==
    SelectSeq(Append(samples, sample),
              LAMBDA s : current_time - s.t < HistorySpan)

\* Variant: the sample before the newest one.
PreviousSample(samples) == samples[Len(samples) - 1]

\* t1, y1 = self.history[vehicle.id][0]
OldestSample(samples) == samples[1]

\* t2, y2 = self.history[vehicle.id][-1]
NewestSample(samples) == samples[Len(samples)]

\* dist_pixels / pixels_per_meter / time_diff * 3.6, as an exact fraction;
\* time_diff is in units of 1 / HistorySpan of a second.
SpeedKmh(oldest, newest) ==
    Ratio(Abs(newest.y - oldest.y) * HistorySpan * 36,
          PixelsPerMeter * (newest.t - oldest.t) * 10)

\* The speed estimate() leaves on a vehicle whose history is samples: set
\* when at least two samples are kept and more than 0.1 s lies between the
\* oldest and the newest, otherwise as it came (None).
SpeedOf(samples) ==
    IF /\ Len(samples) >= 2
       /\ NewestSample(samples).t - OldestSample(samples).t > MinTimeDiff
    THEN [has_speed |-> TRUE,
          speed |-> SpeedKmh(OldestSample(samples), NewestSample(samples))]
    ELSE [has_speed |-> FALSE, speed |-> ZeroRatio]

\* SimpleSpeedEstimator.estimate(vehicles): ids and ys are the ids and the
\* bottom edges of the vehicles, current_time the timestamp of the first.
Estimate(ids, ys, current_time) ==
    LET tracked == {ids[k] : k \in 1..Len(ids)} \ {NoId}
        y_of(id) == ys[CHOOSE k \in 1..Len(ids) : ids[k] = id]
        history == [id \in DOMAIN se_history \cup tracked |->
                       IF id \in tracked
                       THEN KeepRecent(SamplesOf(id),
                                       [t |-> current_time, y |-> y_of(id)],
                                       current_time)
                       ELSE se_history[id]]
    IN  /\ se_history' = history
        /\ se_last' =
              [op |-> "estimate", time |-> current_time,
               vehicles |->
                  [k \in 1..Len(ids) |->
                      IF ids[k] = NoId
                      THEN [id |-> NoId, y |-> ys[k],
                            has_speed |-> FALSE, speed |-> ZeroRatio]
                      ELSE [id |-> ids[k], y |-> ys[k],
                            has_speed |-> SpeedOf(history[ids[k]]).has_speed,
                            speed |-> SpeedOf(history[ids[k]]).speed]]]

\* One frame later: its vehicles carry the timestamp of their detection.
EstimateStep ==
    /\ se_calls < MaxEstimates
    /\ \E ids \in IdLists, step \in FrameSteps :
          \E ys \in [1..Len(ids) -> BottomYs] :
              /\ Estimate(ids, ys, se_time + step)
              /\ se_time' = se_time + step
    /\ se_calls' = se_calls + 1
    /\ UNCHANGED <<coreVars, trackerVars, cameraVars, syncVars, chainVars,
                   catchUpVars>>

NextSpeed == EstimateStep

SpecSpeed == InitSteady /\ [][NextSpeed]_vars

\* C22 as stated: a vehicle's speed is None while fewer than two samples of
\* its id lie in the trailing second, and on every call that leaves at
\* least two samples it is |y_newest - y_oldest| / pixels_per_meter /
\* (t_newest - t_oldest) * 3.6 of the oldest and newest kept sample.
C22_SpeedWheneverTwoSamples ==
    se_last.op = "estimate" =>
        \A k \in 1..Len(se_last.vehicles) :
            LET v == se_last.vehicles[k]
                h == se_history[v.id]
                dy == IF h[Len(h)].y >= h[1].y THEN h[Len(h)].y - h[1].y
                      ELSE h[1].y - h[Len(h)].y
                dt == h[Len(h)].t - h[1].t
            IN  v.id # NoId =>
                   IF Len(h) >= 2
                   THEN /\ v.has_speed
                        /\ v.speed.num * (10 * dt * 10)
                              = dy * 20 * 36 * v.speed.den
                   ELSE ~v.has_speed

\* C22, amended: the kept samples of a vehicle are those of the trailing
\* second, ending with the one just taken; its speed is None while fewer
\* than two are kept or no more than 0.1 s lies between the oldest and the
\* newest of them, and otherwise it is |y_newest - y_oldest| /
\* pixels_per_meter / (t_newest - t_oldest) * 3.6 of the oldest and newest.
C22_SpeedFromOldestAndNewest ==
    se_last.op = "estimate" =>
        \A k \in 1..Len(se_last.vehicles) :
            LET v == se_last.vehicles[k]
                h == se_history[v.id]
                dy == IF h[Len(h)].y >= h[1].y THEN h[Len(h)].y - h[1].y
                      ELSE h[1].y - h[Len(h)].y
                dt == h[Len(h)].t - h[1].t
            IN  IF v.id = NoId
                THEN ~v.has_speed
                ELSE /\ Len(h) >= 1
                     /\ h[Len(h)] = [t |-> se_last.time, y |-> v.y]
                     /\ \A i \in 1..Len(h) : se_last.time - h[i].t < 20
                     /\ IF Len(h) >= 2 /\ dt > 2
                        THEN /\ v.has_speed
                             /\ v.speed.den # 0
                             /\ v.speed.num * (10 * dt * 10)
                                   = dy * 20 * 36 * v.speed.den
                        ELSE ~v.has_speed

\* A vehicle with three kept samples, still between the last two of them
\* but not between the oldest and the newest, and so given a speed.
C22_Witness ==
    /\ se_last.op = "estimate"
    /\ \E k \in 1..Len(se_last.vehicles) :
          LET v == se_last.vehicles[k]
              h == se_history[v.id]
          IN  /\ v.id # NoId
              /\ Len(h) >= 3
              /\ h[Len(h)].y = h[Len(h) - 1].y
              /\ h[Len(h)].y # h[1].y
              /\ v.has_speed
              /\ v.speed.num > 0

\* ====================================================================
\* MultiCameraManager
\* ====================================================================
\* CameraState as CameraInstance.__init__ builds it; a frame image is known
\* by the number of its frame.
NewCameraState ==
    [is_running |-> FALSE,
     latest_frame_raw |-> NoImage,
     latest_frame_processed |-> [image |-> NoImage, drawn |-> FALSE],
     last_broadcast |-> 0]

\* asyncio.create_task(self._run_camera_pipeline(camera)): not yet run, not
\* cancelled, pipeline.run() not yet called.
NewTask(c) == [camera |-> c, pc |-> "new", cancel |-> FALSE, gen |-> "none"]

\* d[k] = v and del d[k] on a dict.
DictSet(d, k, v) == [x \in DOMAIN d \cup {k} |-> IF x = k THEN v ELSE d[x]]
DictDel(d, k) == [x \in DOMAIN d \ {k} |-> d[x]]

\* Variant: no id is ever taken for registered.
AlreadyExistsNever(c) == FALSE

\* if camera_id in self.cameras
AlreadyExists(c) == c \in DOMAIN cameras

\* add_camera(camera_id, config)
AddCamera(c) ==
    /\ loop_thread = NoTask
    /\ cam_calls.add < MaxAdds
    /\ cam_calls' = [cam_calls EXCEPT !.add = @ + 1]
    /\ IF AlreadyExists(c)
       THEN /\ mc_last' = [op |-> "add_camera", camera |-> c, raised |-> TRUE]
            /\ UNCHANGED <<cameras, camera_keys>>
       ELSE /\ cameras' = DictSet(cameras, c, NewCameraState)
            /\ camera_keys' = Append(camera_keys, c)
            /\ mc_last' = [op |-> "add_camera", camera |-> c, raised |-> FALSE]
    /\ UNCHANGED <<tasks, coroutines, stoppers, loop_thread, cam_clock, pulled,
                   stop_invocations, cam_sent>>

\* The body of start_camera for a registered camera, on the manager's
\* cameras, tasks and the tasks created so far.
StartOne(m, c) ==
    IF m.cameras[c].is_running
    THEN m
    ELSE [cameras |-> [m.cameras EXCEPT ![c].is_running = TRUE],
          coroutines |-> Append(m.coroutines, NewTask(c)),
          tasks |-> DictSet(m.tasks, c, Len(m.coroutines) + 1)]

RECURSIVE StartEach(_, _)
StartEach(m, keys) ==
    IF keys = <<>> THEN m
    ELSE StartEach(StartOne(m, Head(keys)), Tail(keys))

Manager ==
    [cameras |-> cameras, coroutines |-> coroutines, tasks |-> tasks]

SetManager(m) ==
    /\ cameras' = m.cameras
    /\ coroutines' = m.coroutines
    /\ tasks' = m.tasks

\* start_camera(camera_id): it never suspends.
StartCamera(c) ==
    /\ loop_thread = NoTask
    /\ cam_calls.start < MaxStarts
    /\ cam_calls' = [cam_calls EXCEPT !.start = @ + 1]
    /\ IF c \notin DOMAIN cameras
       THEN /\ mc_last' = [op |-> "start_camera", camera |-> c,
                           raised |-> TRUE]
            /\ UNCHANGED <<cameras, coroutines, tasks>>
       ELSE /\ SetManager(StartOne(Manager, c))
            /\ mc_last' = [op |-> "start_camera", camera |-> c,
                           raised |-> FALSE]
    /\ UNCHANGED <<camera_keys, stoppers, loop_thread, cam_clock, pulled,
                   stop_invocations, cam_sent>>

\* start_all(): gather runs one start_camera per key, in key order, one
\* right after the other.
StartAll ==
    /\ loop_thread = NoTask
    /\ cam_calls.start < MaxStarts
    /\ cam_calls' = [cam_calls EXCEPT !.start = @ + 1]
    /\ SetManager(StartEach(Manager, camera_keys))
    /\ mc_last' = [op |-> "start_all"]
    /\ UNCHANGED <<camera_keys, stoppers, loop_thread, cam_clock, pulled,
                   stop_invocations, cam_sent>>

\* stop_camera(camera_id), up to "await self._tasks[camera_id]". Awaiting a
\* task that is already done does not suspend: the entry is deleted at once.
StopCamera(c) ==
    /\ loop_thread = NoTask
    /\ cam_calls.stop < MaxStops
    /\ cam_calls' = [cam_calls EXCEPT !.stop = @ + 1]
    /\ IF c \notin DOMAIN cameras
       THEN /\ mc_last' = [op |-> "stop_camera", camera |-> c,
                           known |-> FALSE, started |-> FALSE,
                           raised |-> FALSE, invocations |-> 0]
            /\ UNCHANGED <<cameras, tasks, coroutines, stoppers,
                           stop_invocations>>
       ELSE /\ cameras' = [cameras EXCEPT ![c].is_running = FALSE]
            /\ stop_invocations' = [stop_invocations EXCEPT ![c] = @ + 1]
            /\ IF c \notin DOMAIN tasks
               THEN /\ mc_last' = [op |-> "stop_camera", camera |-> c,
                                   known |-> TRUE, started |-> FALSE,
                                   raised |-> FALSE, invocations |-> 1]
                    /\ UNCHANGED <<tasks, coroutines, stoppers>>
               ELSE IF coroutines[tasks[c]].pc = "done"
                    THEN /\ tasks' = DictDel(tasks, c)
                         /\ mc_last' = [op |-> "stop_camera", camera |-> c,
                                        known |-> TRUE, started |-> TRUE,
                                        raised |-> FALSE, invocations |-> 1]
                         /\ UNCHANGED <<coroutines, stoppers>>
                    ELSE /\ coroutines' =
                              [coroutines EXCEPT ![tasks[c]].cancel = TRUE]
                         /\ stoppers' = stoppers \cup
                              {[camera |-> c, task |-> tasks[c],
                                call |-> cam_calls.stop + 1,
                                before |-> stop_invocations[c]]}
                         /\ mc_last' = NoOp
                         /\ UNCHANGED tasks
    /\ UNCHANGED <<camera_keys, loop_thread, cam_clock, pulled, cam_sent>>

\* stop_camera resumes once the task it awaits is done: CancelledError is
\* passed over and del self._tasks[camera_id] runs, whatever task the entry
\* holds by now; it raises KeyError when the entry is gone.
StopResume(s) ==
    /\ loop_thread = NoTask
    /\ coroutines[s.task].pc = "done"
    /\ stoppers' = stoppers \ {s}
    /\ tasks' = DictDel(tasks, s.camera)
    /\ mc_last' = [op |-> "stop_camera", camera |-> s.camera,
                   known |-> TRUE, started |-> TRUE,
                   raised |-> s.camera \notin DOMAIN tasks,
                   invocations |-> stop_invocations[s.camera] - s.before]
    /\ UNCHANGED <<cameras, camera_keys, coroutines, loop_thread, cam_clock,
                   pulled, stop_invocations, cam_sent, cam_calls>>

\* Variant: the throttle lets every analysis through.
BroadcastDueAlways(current_time, last_broadcast) == TRUE

\* if current_time - camera.state.last_broadcast >= 2
BroadcastDue(current_time, last_broadcast) ==
    current_time - last_broadcast >= BroadcastInterval

\* await self.broadcaster.broadcast(camera_id, data): the cache of the
\* camera is set and the data offered to each of its subscribers.
Publish(c, data) ==
    LET targets == SubscribersOf(subscribers, c)
        full    == {q \in targets : QueueFull(q_items[q], q_maxsize[q])}
    IN  /\ bc_latest_state' = UpdateCache(bc_latest_state, c, data)
        /\ q_items' = Deliver(q_items, q_maxsize, targets, data)
        /\ published' = [published EXCEPT ![c] = data]
        /\ dropped' = dropped \cup {<<q, data>> : q \in full}
        /\ last_op' = [op |-> "broadcast", camera |-> c, data |-> data,
                       room |-> targets \ full, full |-> full]
        /\ UNCHANGED <<subscribers, q_maxsize, q_camera, msgCount>>

\* Variant: the handler leaves the flag as it is.
AfterFailureStillRunning(state) == state

\* except Exception: camera.state.is_running = False
AfterFailure(state) == [state EXCEPT !.is_running = FALSE]

SetTask(t, pc, gen) == [coroutines EXCEPT ![t].pc = pc, ![t].gen = gen]

\* One turn of "for frame, analysis in camera.state.pipeline.run()" from
\* the moment next() returns. outcome tells what the pipeline and the loop
\* body do: "pair": a pair is yielded and the body runs through; "body":
\* a pair is yielded and the body raises (serialize_analysis, broadcast or
\* draw); "raise": the pipeline raises; "end": run() returns, through its
\* finally: self.stop().
PullReturns(t, outcome, has_analysis) ==
    LET c == coroutines[t].camera
        n == pulled[c] + 1
        due == has_analysis
               /\ BroadcastDue(cam_clock, cameras[c].last_broadcast)
    IN  CASE outcome \in {"pair", "body"} ->
                /\ pulled[c] < pull_limit
                /\ pulled' = [pulled EXCEPT ![c] = n]
                /\ UNCHANGED stop_invocations
                /\ IF ~cameras[c].is_running
                   THEN /\ coroutines' = SetTask(t, "done", "open")
                        /\ mc_last' = [op |-> "task_ended", camera |-> c]
                        /\ UNCHANGED <<cameras, cam_sent, broadcasterVars>>
                   ELSE IF outcome = "body"
                   THEN /\ cameras' = [cameras EXCEPT ![c] = AfterFailure(@)]
                        /\ coroutines' = SetTask(t, "done", "open")
                        /\ mc_last' = [op |-> "task_raised", camera |-> c]
                        /\ UNCHANGED <<cam_sent, broadcasterVars>>
                   ELSE /\ IF due
                           THEN /\ Publish(c, n)
                                /\ cam_sent' = [cam_sent EXCEPT ![c] = cam_clock]
                           ELSE UNCHANGED <<cam_sent, broadcasterVars>>
                        /\ cameras' =
                              [cameras EXCEPT
                                 ![c].last_broadcast =
                                     IF due THEN cam_clock ELSE @,
                                 ![c].latest_frame_raw = n,
                                 ![c].latest_frame_processed =
                                     [image |-> n, drawn |-> has_analysis]]
                        /\ coroutines' = SetTask(t, "sleep", "open")
                        /\ mc_last' = [op |-> "iterate", camera |-> c,
                                       frame |-> n,
                                       analysis |-> has_analysis,
                                       broadcast |-> due,
                                       time |-> cam_clock]
          [] outcome = "raise" ->
                /\ cameras' = [cameras EXCEPT ![c] = AfterFailure(@)]
                /\ stop_invocations' =
                      [stop_invocations EXCEPT
                         ![c] = IF coroutines[t].gen = "open" THEN @ + 1 ELSE @]
                /\ coroutines' = SetTask(t, "done", "none")
                /\ mc_last' = [op |-> "task_raised", camera |-> c]
                /\ UNCHANGED <<pulled, cam_sent, broadcasterVars>>
          [] outcome = "end" ->
                /\ stop_invocations' = [stop_invocations EXCEPT ![c] = @ + 1]
                /\ coroutines' = SetTask(t, "done", "none")
                /\ mc_last' = [op |-> "task_ended", camera |-> c]
                /\ UNCHANGED <<cameras, pulled, cam_sent, broadcasterVars>>

PullOutcomes == {"pair", "body", "raise", "end"}

\* The task runs on from its start or from "await asyncio.sleep(0)" and
\* pulls the next pair; the pull returns before anything else happens.
TaskPull(t) ==
    /\ loop_thread = NoTask
    /\ coroutines[t].pc \in {"new", "sleep"}
    /\ ~coroutines[t].cancel
    /\ \E outcome \in PullOutcomes, has_analysis \in analyses :
          PullReturns(t, outcome, has_analysis)
    /\ UNCHANGED <<camera_keys, tasks, stoppers, loop_thread, cam_clock,
                   cam_calls>>

\* The same, but the pipeline has nothing to yield yet (run() sleeps in its
\* pre-buffering loop or waits on the empty result_queue): next() does not
\* return, and it is the thread of the event loop that waits in it.
TaskStall(t) ==
    /\ loop_thread = NoTask
    /\ coroutines[t].pc \in {"new", "sleep"}
    /\ ~coroutines[t].cancel
    /\ coroutines' = SetTask(t, "pull", coroutines[t].gen)
    /\ loop_thread' = t
    /\ mc_last' = NoOp
    /\ UNCHANGED <<cameras, camera_keys, tasks, stoppers, cam_clock, pulled,
                   stop_invocations, cam_sent, cam_calls, broadcasterVars>>

\* The pull that held the thread returns at last.
TaskUnblock(t) ==
    /\ loop_thread = t
    /\ \E outcome \in PullOutcomes, has_analysis \in analyses :
          PullReturns(t, outcome, has_analysis)
    /\ loop_thread' = NoTask
    /\ UNCHANGED <<camera_keys, tasks, stoppers, cam_clock, cam_calls>>

\* A task cancel() was called on gets CancelledError where it stands: before
\* its first statement, or at "await asyncio.sleep(0)". It is no Exception,
\* so the handler at line 138 lets it pass.
TaskCancelled(t) ==
    /\ loop_thread = NoTask
    /\ coroutines[t].pc \in {"new", "sleep"}
    /\ coroutines[t].cancel
    /\ coroutines' = SetTask(t, "done", coroutines[t].gen)
    /\ mc_last' = [op |-> "task_cancelled", camera |-> coroutines[t].camera]
    /\ UNCHANGED <<cameras, camera_keys, tasks, stoppers, loop_thread,
                   cam_clock, pulled, stop_invocations, cam_sent, cam_calls,
                   broadcasterVars>>

\* The next step of a task.
TaskStep(t) == TaskPull(t) \/ TaskStall(t) \/ TaskCancelled(t)

\* The run() generator of a finished task, left suspended at its yield, is
\* closed when it is collected: GeneratorExit runs its finally: self.stop()
GeneratorClose(t) ==
    /\ loop_thread = NoTask
    /\ coroutines[t].pc = "done"
    /\ coroutines[t].gen = "open"
    /\ coroutines' = SetTask(t, "done", "none")
    /\ stop_invocations' =
          [stop_invocations EXCEPT ![coroutines[t].camera] = @ + 1]
    /\ mc_last' = [op |-> "generator_closed",
                   camera |-> coroutines[t].camera]
    /\ UNCHANGED <<cameras, camera_keys, tasks, stoppers, loop_thread,
                   cam_clock, pulled, cam_sent, cam_calls, broadcasterVars>>

\* get_status(), as far as the running flag goes.
GetStatus == [c \in DOMAIN cameras |-> [running |-> cameras[c].is_running]]

otherVars == <<pipelineVars, aggregatorVars, zoneVars, trackingVars,
               syncVars, chainVars, catchUpVars>>

AddCameraStep ==
    /\ \E c \in callers : AddCamera(c)
    /\ UNCHANGED <<otherVars, broadcasterVars, camEnvVars>>

StartCameraStep ==
    /\ \E c \in callers : StartCamera(c)
    /\ UNCHANGED <<otherVars, broadcasterVars, camEnvVars>>

StartAllStep ==
    /\ StartAll
    /\ UNCHANGED <<otherVars, broadcasterVars, camEnvVars>>

StopCameraStep ==
    /\ \E c \in callers : StopCamera(c)
    /\ UNCHANGED <<otherVars, broadcasterVars, camEnvVars>>

StopResumeStep ==
    /\ \E s \in stoppers : StopResume(s)
    /\ UNCHANGED <<otherVars, broadcasterVars, camEnvVars>>

SuperviseStep ==
    /\ \E t \in DOMAIN coroutines : TaskStep(t) \/ TaskUnblock(t)
    /\ UNCHANGED <<otherVars, camEnvVars>>

GeneratorCloseStep ==
    /\ \E t \in DOMAIN coroutines : GeneratorClose(t)
    /\ UNCHANGED <<otherVars, camEnvVars>>

CameraClockStep ==
    /\ cam_clock < MaxCamTime
    /\ cam_clock' = cam_clock + 1
    /\ mc_last' = NoOp
    /\ UNCHANGED <<camEnvVars, managerVars, stop_invocations, cam_sent,
                   cam_calls, otherVars, broadcasterVars>>

\* Everything but the manager, idle.
InitOthers ==
    /\ InitPipelineState /\ src_gaps = {1} /\ InitBroadcaster
    /\ InitAggregator
    /\ agg_inputs = {} /\ flush_durations = {0} /\ repo_faulty = FALSE
    /\ InitZoneCounter /\ InitTracker /\ InitSpeedEstimator
    /\ InitVisionPipeline /\ IdleChain /\ InitCatchUpLoop

\* One camera under any interleaving of the manager's calls and its tasks.
InitCameraCalls ==
    /\ InitOthers /\ InitManager
    /\ callers = {"cam1"} /\ analyses = {TRUE} /\ pull_limit = MaxPullsBusy

NextCameraCalls ==
    \/ AddCameraStep \/ StartCameraStep \/ StartAllStep \/ StopCameraStep
    \/ StopResumeStep \/ SuperviseStep \/ GeneratorCloseStep

SpecCameraCalls == InitCameraCalls /\ [][NextCameraCalls]_vars

\* Two cameras side by side, started together and stopped one by one.
InitCameras ==
    /\ InitOthers /\ InitManager
    /\ callers = Cameras /\ analyses = {TRUE} /\ pull_limit = MaxPullsBusy

NextCameras ==
    \/ AddCameraStep \/ StartAllStep \/ StopCameraStep \/ StopResumeStep
    \/ SuperviseStep

SpecCameras == InitCameras /\ [][NextCameras]_vars

\* The supervisory loop of one camera over time.
InitCameraLoop ==
    /\ InitOthers /\ InitManager
    /\ callers = {"cam1"} /\ analyses = BOOLEAN /\ pull_limit = MaxPulls

NextCameraLoop ==
    AddCameraStep \/ StartAllStep \/ SuperviseStep \/ CameraClockStep

SpecCameraLoop == InitCameraLoop /\ [][NextCameraLoop]_vars

\* ====================================================================
\* Properties of the multi-camera manager
\* ====================================================================
\* C23: add_camera with a registered id raises and leaves the camera map,
\* the state of every camera and the task table as they were; with a new id
\* it adds exactly one entry, not running, and touches no other entry and
\* no task.
C23_AddCamera ==
    [][mc_last'.op = "add_camera" =>
          LET c == mc_last'.camera
          IN  /\ tasks' = tasks
              /\ coroutines' = coroutines
              /\ \A k \in DOMAIN cameras : k \in DOMAIN cameras'
                                           /\ cameras'[k] = cameras[k]
              /\ IF c \in DOMAIN cameras
                 THEN /\ mc_last'.raised
                      /\ DOMAIN cameras' = DOMAIN cameras
                      /\ camera_keys' = camera_keys
                 ELSE /\ ~mc_last'.raised
                      /\ DOMAIN cameras' = DOMAIN cameras \cup {c}
                      /\ ~cameras'[c].is_running
                      /\ Len(camera_keys') = Len(camera_keys) + 1
    ]_vars

\* add_camera has just raised for a camera that is running and has a task.
C23_Witness ==
    /\ mc_last.op = "add_camera"
    /\ mc_last.raised
    /\ cameras[mc_last.camera].is_running
    /\ mc_last.camera \in DOMAIN tasks

\* C24: every pair the supervisory loop pulls, unless its body raises,
\* refreshes the raw and the processed frame of the camera, whether or not
\* it is broadcast; and a broadcast of a camera comes no sooner than 2 s
\* after the previous broadcast of that camera.
C24_ThrottledBroadcast ==
    [][\A c \in Cameras :
          pulled'[c] # pulled[c] =>
             \/ mc_last'.op = "task_raised"
             \/ /\ mc_last'.op = "iterate"
                /\ mc_last'.camera = c
                /\ cameras'[c].latest_frame_raw = pulled'[c]
                /\ cameras'[c].latest_frame_processed.image = pulled'[c]
                /\ published'[c] # published[c] =>
                      \/ cam_sent[c] = 0
                      \/ cam_clock - cam_sent[c] >= 2
    ]_vars

\* A pair with an analysis, pulled a second after the last broadcast: not
\* broadcast, yet in the frame cache.
C24_Witness ==
    /\ mc_last.op = "iterate"
    /\ mc_last.analysis
    /\ ~mc_last.broadcast
    /\ cam_sent[mc_last.camera] = mc_last.time - 1
    /\ published[mc_last.camera] # mc_last.frame
    /\ cameras[mc_last.camera].latest_frame_raw = mc_last.frame

\* C25: stop_camera on a camera with a supervisory task returns without
\* raising, with is_running false, the task done and gone from the task
\* table, and pipeline.stop() invoked exactly once between its call and its
\* return; on an unknown id it changes nothing.
C25_StopCamera ==
    [][mc_last'.op = "stop_camera" =>
          LET c == mc_last'.camera
          IN  IF ~mc_last'.known
              THEN /\ cameras' = cameras /\ tasks' = tasks
                   /\ coroutines' = coroutines
                   /\ stop_invocations' = stop_invocations
              ELSE mc_last'.started =>
                      /\ ~mc_last'.raised
                      /\ ~cameras'[c].is_running
                      /\ c \notin DOMAIN tasks'
                      /\ mc_last'.invocations = 1
    ]_vars

\* C26: no camera ever has more than one supervisory task that is neither
\* done nor cancelled.
C26_OneTaskPerCamera ==
    \A c \in Cameras :
        Cardinality({t \in DOMAIN coroutines :
                        /\ coroutines[t].camera = c
                        /\ coroutines[t].pc # "done"
                        /\ ~coroutines[t].cancel}) <= 1

\* C27: no camera ever leaves the camera map, and when the supervisory task
\* of a camera ends in the exception handler, the camera is registered, its
\* is_running is false and get_status reports it with running false.
C27_DeadCameraReported ==
    [][/\ \A c \in DOMAIN cameras : c \in DOMAIN cameras'
       /\ mc_last'.op = "task_raised" =>
             /\ mc_last'.camera \in DOMAIN cameras'
             /\ ~cameras'[mc_last'.camera].is_running
             /\ mc_last'.camera \in DOMAIN GetStatus'
             /\ ~GetStatus'[mc_last'.camera].running
    ]_vars

\* The task the table holds for a camera has just ended in the handler.
C27_Witness ==
    /\ mc_last.op = "task_raised"
    /\ mc_last.camera \in DOMAIN tasks
    /\ coroutines[tasks[mc_last.camera]].pc = "done"
    /\ ~GetStatus[mc_last.camera].running

\* C28: while the pull of one camera's task waits on its pipeline, every
\* task of another camera that is ready to run can take its next step.
C28_CameraIsolation ==
    \A t \in DOMAIN coroutines :
        (/\ coroutines[t].pc \in {"new", "sleep"}
         /\ \E u \in DOMAIN coroutines :
               /\ coroutines[u].pc = "pull"
               /\ coroutines[u].camera # coroutines[t].camera)
        => ENABLED TaskStep(t)

\* ======================================================================
\* Properties of pre-buffering
\* ======================================================================
\* C29: run() leaves its pre-buffering wait only when result_queue holds
\* at least 5 items or the stop flag is set, and it yields its first pair
\* only with at least 5 items queued; once 5 items are queued the wait is
\* over (run() can go on to playback), playback with the flag clear goes
\* on to take from the queue, and what it takes it yields.
C29_PreBuffering ==
    [][ /\ (rpc = "prebuffer" /\ rpc' # "prebuffer")
            => /\ Len(result_queue) >= 5 \/ stop_event
               /\ rpc' = "loop"
        /\ (Len(yielded) = 0 /\ Len(yielded') > 0)
            => Len(result_queue) >= 5
        /\ (rpc = "get" /\ Len(yielded) = 0) => Len(result_queue) >= 5
        /\ (rpc = "prebuffer" /\ Len(result_queue) >= 5)
            => ENABLED RunPrebuffer
        /\ (rpc = "loop" /\ rpc' # "loop" /\ ~stop_event) => rpc' = "get"
        /\ (rpc = "get" /\ rpc' # "get" /\ result_queue # <<>>)
            => /\ yielded' = Append(yielded, Head(result_queue))
               /\ rpc' = "yielded"
      ]_vars

\* The first pair has just been yielded, with the stop flag clear and four
\* more results still queued: playback began because the depth was reached.
C29_Witness ==
    /\ Len(yielded) = 1 /\ rpc = "yielded"
    /\ ~stop_event
    /\ Len(result_queue) >= 4

\* ======================================================================
\* VisionPipeline (the synchronous pipeline)
\* ======================================================================
\* The frames the source yields when iterated, in order.
SourceFrames == [i \in 1..SyncFrames |-> [id |-> i - 1]]

\* What processor_chain.process(frame, previous) may return: a new
\* FrameAnalysis of this frame, the analysis it was given (a detector that
\* skips frames hands back '_last_analysis or analysis'), or None.
ChainResults(frame, previous) ==
    {previous, NoResult}
    \cup {[none |-> FALSE, frame_id |-> frame.id, total_count |-> n] :
             n \in 0..MaxDetections}

\* Variant: run() that hands None to every call of process.
PreviousAlwaysNone == NoResult

\* The second argument of the call: the local 'analysis'.
PreviousAnalysis == analysis_local

\* The caller asks the generator for its next pair: the for loop takes the
\* next frame, or ends with the source; process is called with the frame and
\* the local analysis; its result is stored in the local and yielded with
\* the frame, or its exception ends the generator.
PullNext ==
    /\ vp_state = "running"
    /\ IF vp_pos >= Len(SourceFrames)
       THEN /\ vp_state' = "ended"
            /\ UNCHANGED <<vp_pos, analysis_local, vp_yielded, vp_calls>>
       ELSE LET frame == SourceFrames[vp_pos + 1]
                previous == PreviousAnalysis
            IN  /\ vp_pos' = vp_pos + 1
                /\ \/ \E result \in ChainResults(frame, previous) :
                        /\ vp_calls' = Append(vp_calls,
                               [frame |-> frame, previous |-> previous,
                                raised |-> FALSE, result |-> result])
                        /\ analysis_local' = result
                        /\ vp_yielded' = Append(vp_yielded,
                               [frame |-> frame, analysis |-> result])
                        /\ UNCHANGED vp_state
                   \/ /\ vp_calls' = Append(vp_calls,
                               [frame |-> frame, previous |-> previous,
                                raised |-> TRUE, result |-> NoResult])
                      /\ vp_state' = "failed"
                      /\ UNCHANGED <<analysis_local, vp_yielded>>

PullNextStep ==
    /\ PullNext
    /\ UNCHANGED <<coreVars, trackingVars, cameraVars, chainVars,
                   catchUpVars>>

NextSyncPipeline == PullNextStep

SpecSyncPipeline == InitSteady /\ [][NextSyncPipeline]_vars

\* C30: the i-th pair run() yields holds the i-th frame of the source and
\* the result of the i-th call of process; that call was made with the
\* i-th frame and with None (i = 1) or the result of the call before it;
\* there are as many calls as pairs (one more when the last call raised),
\* never more pairs than frames taken, and when the source is exhausted
\* every frame has its pair.
C30_OnePairPerFrame ==
    /\ Len(vp_yielded) <= SyncFrames
    /\ Len(vp_yielded) = vp_pos - (IF vp_state = "failed" THEN 1 ELSE 0)
    /\ Len(vp_calls) = vp_pos
    /\ vp_state = "ended" => Len(vp_yielded) = SyncFrames
    /\ \A i \in 1..Len(vp_yielded) :
          /\ vp_yielded[i].frame.id = i - 1
          /\ vp_calls[i].frame.id = i - 1
          /\ ~vp_calls[i].raised
          /\ vp_yielded[i].analysis = vp_calls[i].result
    /\ \A i \in 1..Len(vp_calls) :
          vp_calls[i].previous =
              (IF i = 1
               THEN [none |-> TRUE, frame_id |-> -1, total_count |-> 0]
               ELSE vp_calls[i - 1].result)

\* The source is exhausted after every frame was yielded, the analyses of
\* the first two frames differing, so that the third call was handed the
\* second result and not the first.
C30_Witness ==
    /\ vp_state = "ended"
    /\ Len(vp_yielded) = SyncFrames
    /\ ~vp_yielded[1].analysis.none /\ ~vp_yielded[2].analysis.none
    /\ vp_yielded[1].analysis # vp_yielded[2].analysis
    /\ vp_calls[3].previous = vp_yielded[2].analysis

\* ======================================================================
\* Properties of catch-up skipping under changing lag
\* ======================================================================
\* C32: of every three consecutively dequeued frames the processing worker
\* processes at least one, whatever tier the lag of each frame falls in.
C32_NeverThreeSkipsInARow ==
    \A i \in 1..(Len(decisions) - 2) : ProcessedIn(i, i + 2) >= 1

\* ======================================================================
\* The processor chain: detection, tracking, speed, zones, aggregation
\* ======================================================================
\* FrameAnalysis(frame_id, ..., vehicles, total_count, zones=None) as the
\* detector builds it.  The lists an analysis holds are named by the frame
\* during whose processing they were assigned; no zones yet is -1.
NewAnalysis(frame_id, count) ==
    [frame_id |-> frame_id, total_count |-> count,
     vehicles_of |-> frame_id, zones_of |-> -1, from |-> NoObject]

\* _interpolate_positions: a new FrameAnalysis for this frame with new
\* vehicles computed from the cached ones, and the cached object's zones.
Interpolated(frame_id, objs, cached) ==
    [frame_id |-> frame_id, total_count |-> objs[cached].total_count,
     vehicles_of |-> frame_id, zones_of |-> objs[cached].zones_of,
     from |-> cached]

\* Variant: detection on the frame after each multiple of n.
ShouldDetectOffByOne(frame_id, n) == frame_id % n = 1 % n

\* frame.id % self.detect_every_n == 0
ShouldDetect(frame_id, n) == frame_id % n = 0

\* The detection processor's _process: what it returns, the objects that
\* exist afterwards, and self._last_analysis afterwards.
DetectionProcess(kind, frame_id, given, objs, cached, count) ==
    IF ShouldDetect(frame_id, detect_every_n)
    THEN [detected |-> TRUE,
          objs |-> Append(objs, NewAnalysis(frame_id, count)),
          cached |-> Len(objs) + 1, result |-> Len(objs) + 1]
    ELSE IF kind = "interpolating" /\ cached # NoObject
    THEN [detected |-> FALSE,
          objs |-> Append(objs, Interpolated(frame_id, objs, cached)),
          cached |-> cached, result |-> Len(objs) + 1]
    ELSE [detected |-> FALSE, objs |-> objs, cached |-> cached,
          result |-> IF kind = "plain" /\ cached = NoObject
                     THEN given ELSE cached]

\* TrackingProcessor, SpeedEstimationProcessor and ZoneProcessor: each
\* assigns to the analysis it is given when that analysis has vehicles
\* (analysis.vehicles = ..., analysis.zones = ...) and returns it.
Downstream(objs, r, frame_id) ==
    IF r # NoObject /\ objs[r].total_count > 0
    THEN [objs |-> [objs EXCEPT ![r].vehicles_of = frame_id,
                                ![r].zones_of = frame_id],
          result |-> r]
    ELSE [objs |-> objs, result |-> r]

\* AggregationProcessor: if analysis: aggregate_and_persist(analysis), which
\* appends the object to the aggregator's buffer.
BufferAppend(buf, objs, r) ==
    IF r = NoObject THEN buf
    ELSE Append(buf, [object |-> r, as_put |-> objs[r]])

\* One frame through the chain and onto result_queue:
\* analysis = self.processor_chain.process(frame, analysis);
\* self.result_queue.put((frame, analysis)).
ProcessFrame(frame_id, count) ==
    LET d == DetectionProcess(detector_kind, frame_id, chain_analysis,
                              objects, last_analysis, count)
        t == Downstream(d.objs, d.result, frame_id)
    IN  /\ objects' = t.objs
        /\ last_analysis' = d.cached
        /\ chain_analysis' = t.result
        /\ next_frame_id' = frame_id + 1
        /\ detect_calls' = IF d.detected THEN Append(detect_calls, frame_id)
                           ELSE detect_calls
        /\ chain_log' = Append(chain_log,
               [frame_id |-> frame_id, detected |-> d.detected,
                given |-> chain_analysis, cached |-> last_analysis,
                result |-> t.result])
        /\ buffered' = BufferAppend(buffered, t.objs, t.result)
        /\ queued_results' = Append(queued_results,
               [frame_id |-> frame_id, object |-> t.result,
                as_put |-> IF t.result = NoObject
                           THEN NewAnalysis(-1, 0) ELSE t.objs[t.result]])
        /\ UNCHANGED chainEnvVars

ProcessFrameStep ==
    /\ Len(chain_log) < MaxChainFrames
    /\ \E step \in IdSteps, count \in VehicleCounts :
          ProcessFrame(next_frame_id + step - 1, count)
    /\ UNCHANGED <<coreVars, trackingVars, cameraVars, syncVars,
                   catchUpVars>>

InitChainSpec ==
    /\ InitPipelineState /\ src_gaps = {1} /\ InitBroadcaster
    /\ InitAggregator
    /\ agg_inputs = {} /\ flush_durations = {0} /\ repo_faulty = FALSE
    /\ InitZoneCounter /\ InitLaterButChain
    /\ InitChain
    /\ detect_every_n \in DetectEvery
    /\ detector_kind \in DetectorKinds

NextChain == ProcessFrameStep

SpecChain == InitChainSpec /\ [][NextChain]_vars

\* The frames handed to the chain so far whose id is a multiple of n.
MultiplesSeen ==
    SelectSeq([i \in 1..Len(chain_log) |-> chain_log[i].frame_id],
              LAMBDA f : f % detect_every_n = 0)

\* C31: detector.detect has been called for exactly the processed frames
\* whose id is a multiple of detect_every_n, once each and in order; for any
\* other frame the processor returns the object cached by the last
\* detection, or (interpolating) a new analysis of this frame built from
\* that object; with nothing cached yet it returns what it was given
\* (DetectionProcessor) or None (SmartDetectionProcessor).
C31_DetectionFrequency ==
    /\ detect_calls = MultiplesSeen
    /\ \A i \in 1..Len(chain_log) :
          LET e == chain_log[i] IN
          /\ e.detected <=> (e.frame_id % detect_every_n = 0)
          /\ (~e.detected /\ e.cached # NoObject) =>
                /\ objects[e.cached].frame_id < e.frame_id
                /\ objects[e.cached].frame_id % detect_every_n = 0
                /\ \A j \in 1..(i - 1) :
                      chain_log[j].detected =>
                          chain_log[j].frame_id <= objects[e.cached].frame_id
                /\ IF detector_kind = "interpolating"
                   THEN /\ objects[e.result].from = e.cached
                        /\ objects[e.result].frame_id = e.frame_id
                        /\ objects[e.result].total_count =
                               objects[e.cached].total_count
                   ELSE e.result = e.cached
          /\ (~e.detected /\ e.cached = NoObject) =>
                e.result = (IF detector_kind = "plain" THEN e.given
                            ELSE NoObject)

\* With detect_every_n = 3, frames 0, 1 or 2, and 3 have been processed:
\* two detections with a frame between them that was answered from the cache.
C31_Witness ==
    /\ detect_every_n = 3
    /\ detect_calls = <<0, 3>>
    /\ \E i \in 1..Len(chain_log) :
          /\ ~chain_log[i].detected
          /\ chain_log[i].cached # NoObject

\* ======================================================================
\* A processor chain that raises
\* ======================================================================
\* processor_chain.process raises: the exception leaves the while loop to
\* 'except Exception as e: print(...)', then 'finally: print(...)', and the
\* processing thread ends.  Neither handler touches the stop flag.
ProcRaise ==
    /\ ppc = "process"
    /\ ppc' = "done"
    /\ UNCHANGED <<srcVars, pipeVars, capVars, pframe, skipped_counter,
                   analysis, runVars, extVars, histVars>>

ProcRaiseStep ==
    /\ ProcRaise
    /\ UNCHANGED nonPipelineVars

NextChainFailure == CaptureStep \/ ProcessingStep \/ RunStep \/ ProcRaiseStep

\* Both workers are scheduled by the operating system and the caller keeps
\* iterating run(); whether the chain raises is not up to the scheduler.
SpecChainFailure ==
    /\ InitSteady /\ [][NextChainFailure]_vars
    /\ WF_vars(CaptureStep)
    /\ WF_vars(ProcessingStep)
    /\ WF_vars(RunStep)

\* C33: once the processing worker has ended, the stop flag is set or
\* becomes set, so that the capture worker and run() end as well.
C33_NoHangAfterChainFailure == (ppc = "done") ~> stop_event

\* C34: an analysis object that has been put on result_queue, or appended
\* to the aggregator's buffer, is afterwards what it was when it was put:
\* the processing of later frames assigns to none of its fields.
C34_AnalysisNotModifiedAfterHandOff ==
    /\ \A i \in 1..Len(queued_results) :
          queued_results[i].object # NoObject =>
              objects[queued_results[i].object] = queued_results[i].as_put
    /\ \A i \in 1..Len(buffered) :
          objects[buffered[i].object] = buffered[i].as_put

\* ======================================================================
\* Properties of stop() and the capture worker
\* ======================================================================
\* C35: whenever stop() invokes source.release(), the capture worker has
\* already ended.
C35_ReleaseAfterCaptureEnded ==
    [][releases' # releases => cpc = "done"]_vars

\* ======================================================================
\* Properties of the running flag
\* ======================================================================
\* C36: get_status reports running = true for a camera only while a
\* supervisory task of that camera has not finished.
C36_RunningOnlyWhileTaskActive ==
    \A c \in DOMAIN cameras :
        GetStatus[c].running =>
            \E t \in DOMAIN coroutines :
                /\ coroutines[t].camera = c
                /\ coroutines[t].pc # "done"

\* ======================================================================
\* Properties of flushing
\* ======================================================================
\* The window of this flush begins with the whole window of the one before.
Reflushed(before, after) ==
    /\ before # <<>>
    /\ Len(after) >= Len(before)
    /\ SubSeq(after, 1, Len(before)) = before

\* C37: no analysis is aggregated and persisted by two flushes (a flush
\* that saved something is never followed by a flush that saves aggregates
\* of the same analyses again), and no batch of aggregates is given up
\* because flush_queue is full.
C37_EachAnalysisInOneFlush ==
    [][ /\ a_dropped' = 0
        /\ ( /\ agg_last.op # "none" /\ agg_last'.op # "none"
             /\ agg_last.flushed /\ agg_last.saved # <<>>
             /\ agg_last'.flushed /\ agg_last'.saved # <<>> )
           => ~Reflushed(agg_last.window, agg_last'.window)
      ]_vars

\* ======================================================================
\* Properties of subscribe racing with broadcast
\* ======================================================================
\* Clients subscribing to one camera while it is broadcast to.  subscribe
\* and broadcast are coroutines of one event loop; their awaits are the
\* acquisition of a lock that no holder keeps across an await, and a put
\* on a new queue that is not full: neither suspends, so each runs from its
\* call to its return without the other in between, in either order.
NextSubscribeRace ==
    /\ \/ \E size \in QueueSizes : Subscribe("cam1", size)
       \/ Broadcast("cam1")
       \/ \E q \in DOMAIN q_items : SubscriberGet(q)
    /\ UNCHANGED nonBroadcasterVars

SpecSubscribeRace == InitSteady /\ [][NextSubscribeRace]_vars

\* C40: the messages waiting in a subscriber's queue are in publish order
\* without repetition; a message enters a queue either as the cached state
\* when the queue is created or at the tail by the broadcast that publishes
\* it, which is then newer than anything the queue has ever held; and the
\* subscriber takes messages from the head only.
C40_PublishOrderNoDuplicates ==
    [][ \A q \in DOMAIN q_items' :
          LET new == q_items'[q] IN
          /\ \A i \in 1..(Len(new) - 1) : new[i] < new[i + 1]
          /\ q \notin DOMAIN q_items =>
                \/ new = <<>> /\ published["cam1"] = NoData
                \/ new = <<published["cam1"]>> /\ published["cam1"] # NoData
          /\ q \in DOMAIN q_items =>
                \/ new = q_items[q]
                \/ q_items[q] # <<>> /\ new = Tail(q_items[q])
                \/ /\ new = Append(q_items[q], msgCount')
                   /\ msgCount' > msgCount
                   /\ published'["cam1"] = msgCount'
      ]_vars

\* The second subscriber has just subscribed and got message 2 as the cached
\* state, after the broadcast that published it put it behind message 1 in
\* the first subscriber's queue.
C40_Witness ==
    /\ last_op.op = "subscribe" /\ last_op.queue = 2
    /\ last_op.published = 2 /\ msgCount = 2
    /\ q_items[2] = <<2>>
    /\ q_items[1] = <<1, 2>>

\* ======================================================================
\* Catch-up skipping together with detection every n frames
\* ======================================================================
\* The processing loop over a source that never ends.  The loop tests its
\* counter modulo 2 and 3 and the detector tests the frame id modulo
\* detect_every_n, so the counter and the id are kept modulo a common
\* multiple of these: every test the code makes has the same outcome.
IdCycle == 2 * 3

\* current_lag of a frame: below the first threshold, in the 1-of-2 tier, in
\* the 1-of-3 tier.
LagValues == {0, LagT1 + 1, LagT2 + 1}

\* One frame through _processing_loop: frame_queue.get, the skip decision,
\* and for a frame that is not skipped processor_chain.process, whose
\* detection processor calls the detector on ids that are multiples of
\* detect_every_n.  The ids of a source are consecutive (frame_id += 1).
DequeueFrame(lag) ==
    LET counter == NextSkipped(cu_skipped_counter, lag) % IdCycle
        proc    == ShouldProcess(counter, lag)
    IN /\ current_lag' = lag
       /\ cu_skipped_counter' = counter
       /\ should_process' = proc
       /\ detection_ran' = (proc /\ ShouldDetect(cu_frame_id, detect_every_n))
       /\ cu_frame_id' = (cu_frame_id + 1) % IdCycle

DequeueFrameStep ==
    /\ \E lag \in LagValues : DequeueFrame(lag)
    /\ UNCHANGED <<coreVars, trackingVars, cameraVars, syncVars, chainVars>>

InitCatchUpDetect ==
    /\ InitPipelineState /\ src_gaps = {1} /\ InitBroadcaster
    /\ InitAggregator
    /\ agg_inputs = {} /\ flush_durations = {0} /\ repo_faulty = FALSE
    /\ InitZoneCounter /\ InitLaterButChain
    /\ InitChain
    /\ detect_every_n \in DetectEvery
    /\ detector_kind = "plain"

NextCatchUpDetect == DequeueFrameStep

\* The processing thread keeps running while frames arrive.
SpecCatchUpDetect ==
    /\ InitCatchUpDetect /\ [][NextCatchUpDetect]_vars
    /\ WF_vars(DequeueFrameStep)

\* C38: if from some frame on every frame is dequeued under catch-up lag,
\* and so the worker goes on processing one frame in two or in three, then
\* again and again a processed frame has an id that is a multiple of
\* detect_every_n and the detector runs.
C38_DetectionKeepsRunning ==
    <>[](current_lag > LagT1) => []<>detection_ran

\* ======================================================================
\* Properties of the processing lag counted in frames
\* ======================================================================
\* The id of the frame whose timestamp is in _latest_capture_ts: the frame
\* the capture thread holds once it has stored its timestamp, the one before
\* it until then (timestamps grow with the ids); -1 before the first frame.
LatestCaptureId ==
    IF latest_capture_ts = cframe.ts THEN cframe.id ELSE cframe.id - 1

\* C39: the frame the processing worker holds is at most frame_buffer_size + 1
\* frames behind the frame whose timestamp is the latest capture timestamp.
C39_LagBoundedInFrames ==
    LatestCaptureId - pframe.id <= FrameBufferSize + 1

\* The worker is processing a frame while frame_queue is full behind it and
\* the capture thread waits to put the frame whose timestamp it has stored:
\* the bound is met exactly.
C39_Witness ==
    /\ ppc = "process" /\ pframe.id >= 0
    /\ cpc = "put" /\ latest_capture_ts = cframe.ts
    /\ Len(frame_queue) = FrameBufferSize
    /\ cframe.id - pframe.id = FrameBufferSize + 1

=============================================================================
